---- MODULE Spec2Model ----
(***************************************************************************)
(* Transaction lifecycle engine of the marketplace backend: ledger         *)
(* balances, withdrawal requests, disputes and credential delivery.        *)
(* Money is counted in cents (the numeric(10,2) columns of db/schema.ts).  *)
(***************************************************************************)
EXTENDS Integers, Sequences, FiniteSets, TLC

VARIABLES
    balance,       \* usersTable.balance of every user, in cents
    withdrawals,   \* withdrawalRequestsTable, row id = index
    transactions,  \* transactionsTable
    disputes,      \* disputesTable
    listings,      \* listingsTable
    cart,          \* cartItemsTable: the set of its rows
    req,           \* the request each concurrent process is serving, and where it stands
    calls,         \* number of requests started by the concurrent processes
    last,          \* the request completed last and its outcome
    debits,        \* history: per withdrawal request, how often its amount was debited
    deliveries,    \* history: per transaction, how many calls returned its credentials
    net,           \* history: per user, the sum of the credits and debits written
    balance0,      \* history: the balances at start
    now,           \* the clock, in minutes
    reviews,       \* reviewsTable
    cartSeq        \* the serial of cartItemsTable.id: the id given last

vars == <<balance, withdrawals, transactions, disputes, listings, cart,
          req, calls, last, debits, deliveries, net, balance0, now, reviews, cartSeq>>

\* what the handlers serving one request at a time leave alone
ctl == <<req, calls, deliveries, net, balance0, now, reviews, cartSeq>>

----------------------------------------------------------------------------
(* Bounds of the model *)

MaxWithdrawals == 2
\* requests started by the concurrent processes in one behaviour
MaxCalls == 3
\* length of the cart_items array of a checkout
MaxItems == 2
\* rows of listingsTable created in one behaviour
MaxListings == 1
\* ids the serial of cartItemsTable gives out in one behaviour
MaxCartRows == 2
\* quantity of one cart row
MaxQuantity == 2

----------------------------------------------------------------------------
(* Values *)

NULL == "NULL"
Undefined == "undefined"

\* rows of usersTable: 1 is a buyer, 2 and 3 are sellers; 4 is an id with no row
UserIds == {1, 2, 3}
NoUser == 4

WithdrawalStatus == {"pending", "approved", "rejected", "completed"}
ProcessStatus == {"approved", "rejected", "completed"}
Resolution == {"buyer_favor", "seller_favor", "partial_refund"}

InitBalances == {0, 5000, 10000}
WithdrawalAmounts == {5000, 10000}
RefundAmounts == {-1000, 0, 6000, 9500, 10000, 11000}
AdminNotes == {Undefined, "note"}

\* (amount, platform_fee) of the transaction rows present at start
SeedAmounts == {<<10000, 1000>>, <<10000, 500>>}

\* platformFeeRate, in percent
PlatformFeeRate == 5

Procs == {"p1", "p2"}

Idle == [pc |-> "idle"]

\* an optional number argument: omitted, or given with a value
Omitted == [given |-> FALSE, value |-> 0]
Given(v) == [given |-> TRUE, value |-> v]
RefundArgs == {Omitted} \cup {Given(v) : v \in RefundAmounts}

\* the request served last: operation, target row id, status or resolution
\* argument, amount, user (or transaction) id, the target row's status as the
\* handler read it, and the outcome ("ok", "null" or the error message)
NoCall == [op |-> "none", id |-> 0, arg |-> NULL, amount |-> 0, user |-> 0,
           was |-> NULL, result |-> NULL]

Call(op, id, arg, amount, user, was, result) ==
    [op |-> op, id |-> id, arg |-> arg, amount |-> amount, user |-> user,
     was |-> was, result |-> result]

\* JavaScript truthiness of an optional string argument
Truthy(s) == s # Undefined /\ s # ""

\* the clock counts minutes
MinutesPerHour == 60
\* checkout sets escrow_release_date this many hours ahead
EscrowHours == 24
\* createDispute accepts a transaction up to this many hours old
DisputeWindowHours == 24

\* rows as the tables of db/schema.ts hold them; created_at is defaultNow()
TransactionRow(buyer, seller, listing, amount, fee, status, escrow, delivered) ==
    [buyer_id |-> buyer, seller_id |-> seller, listing_id |-> listing,
     amount |-> amount, platform_fee |-> fee, status |-> status,
     escrow_release_date |-> escrow, credentials_delivered_at |-> delivered,
     created_at |-> now, updated_at |-> NULL]

SeedTransaction(buyer, seller, listing, seed, status, delivered) ==
    TransactionRow(buyer, seller, listing, seed[1], seed[2], status, NULL, delivered)

SeedDispute(transaction, buyer, seller, status) ==
    [transaction_id |-> transaction, buyer_id |-> buyer, seller_id |-> seller,
     status |-> status, admin_notes |-> NULL, resolved_at |-> NULL,
     created_at |-> now, updated_at |-> NULL]

SeedListing(seller, price, status) ==
    [seller_id |-> seller, price |-> price, status |-> status,
     encrypted_credentials |-> "b64:creds"]

----------------------------------------------------------------------------
(* Withdrawal engine *)

InsufficientBalance_Strict(currentBalance, amount) == currentBalance <= amount

\* the balance check of createWithdrawalRequest
InsufficientBalance(currentBalance, amount) == currentBalance < amount

\* createWithdrawalRequest taking the amount from the balance at the request
createWithdrawalRequest_DebitsAtRequest(seller_id, amount) ==
    /\ IF seller_id \notin UserIds
       THEN /\ last' = Call("createWithdrawalRequest", 0, NULL, amount, seller_id,
                            NULL, "Seller not found")
            /\ UNCHANGED <<balance, withdrawals, debits>>
       ELSE IF InsufficientBalance(balance[seller_id], amount)
       THEN /\ last' = Call("createWithdrawalRequest", 0, NULL, amount, seller_id,
                            NULL, "Insufficient balance")
            /\ UNCHANGED <<balance, withdrawals, debits>>
       ELSE /\ Len(withdrawals) < MaxWithdrawals
            /\ withdrawals' = Append(withdrawals,
                   [seller_id |-> seller_id, amount |-> amount,
                    status |-> "pending", admin_notes |-> NULL,
                    processed_at |-> NULL])
            /\ debits' = Append(debits, 0)
            /\ balance' = [balance EXCEPT ![seller_id] = @ - amount]
            /\ last' = Call("createWithdrawalRequest", Len(withdrawals) + 1, NULL,
                            amount, seller_id, NULL, "ok")
    /\ UNCHANGED <<transactions, disputes, listings, cart, ctl>>

\* createWithdrawalRequest(input): one request, run to completion
createWithdrawalRequest(seller_id, amount) ==
    /\ IF seller_id \notin UserIds
       THEN /\ last' = Call("createWithdrawalRequest", 0, NULL, amount, seller_id,
                            NULL, "Seller not found")
            /\ UNCHANGED <<withdrawals, debits>>
       ELSE IF InsufficientBalance(balance[seller_id], amount)
       THEN /\ last' = Call("createWithdrawalRequest", 0, NULL, amount, seller_id,
                            NULL, "Insufficient balance")
            /\ UNCHANGED <<withdrawals, debits>>
       ELSE /\ Len(withdrawals) < MaxWithdrawals
            /\ withdrawals' = Append(withdrawals,
                   [seller_id |-> seller_id, amount |-> amount,
                    status |-> "pending", admin_notes |-> NULL,
                    processed_at |-> NULL])
            /\ debits' = Append(debits, 0)
            /\ last' = Call("createWithdrawalRequest", Len(withdrawals) + 1, NULL,
                            amount, seller_id, NULL, "ok")
    /\ UNCHANGED <<balance, transactions, disputes, listings, cart, ctl>>

\* the row written by the final update of adminProcessWithdrawal
ProcessedRow(row, status, adminNotes) ==
    [row EXCEPT !.status = status,
                !.admin_notes = IF Truthy(adminNotes) THEN adminNotes ELSE @,
                !.processed_at = IF status = "completed" THEN "T" ELSE @]

DebitsOnApproval_AnyStatus(status, existingRequest) ==
    status = "approved"

DebitsOnApproval_OrCompleted(status, existingRequest) ==
    status \in {"approved", "completed"} /\ existingRequest.status = "pending"

\* the condition under which adminProcessWithdrawal touches the seller's balance
DebitsOnApproval(status, existingRequest) ==
    status = "approved" /\ existingRequest.status = "pending"

InsufficientSellerBalance_Never(currentBalance, withdrawalAmount) == FALSE

\* the balance check of adminProcessWithdrawal
InsufficientSellerBalance(currentBalance, withdrawalAmount) ==
    currentBalance < withdrawalAmount

\* adminProcessWithdrawal with the status update issued before the balance check
adminProcessWithdrawal_StatusFirst(withdrawalId, status, adminNotes) ==
    IF withdrawalId \notin DOMAIN withdrawals
    THEN /\ last' = Call("adminProcessWithdrawal", withdrawalId, status, 0, 0,
                         NULL, "null")
         /\ UNCHANGED <<balance, withdrawals, transactions, disputes, listings, cart,
                        debits, ctl>>
    ELSE LET existingRequest == withdrawals[withdrawalId]
             seller == existingRequest.seller_id
             withdrawalAmount == existingRequest.amount
             failed == /\ status = "approved" /\ existingRequest.status = "pending"
                       /\ balance[seller] < withdrawalAmount
         IN /\ withdrawals' = [withdrawals EXCEPT ![withdrawalId] =
                                  ProcessedRow(@, status, adminNotes)]
            /\ IF status = "approved" /\ existingRequest.status = "pending" /\ ~failed
               THEN /\ balance' = [balance EXCEPT ![seller] = @ - withdrawalAmount]
                    /\ debits' = [debits EXCEPT ![withdrawalId] = @ + 1]
               ELSE UNCHANGED <<balance, debits>>
            /\ last' = Call("adminProcessWithdrawal", withdrawalId, status,
                            withdrawalAmount, seller, existingRequest.status,
                            IF failed THEN "Insufficient seller balance for withdrawal"
                            ELSE "ok")
            /\ UNCHANGED <<transactions, disputes, listings, cart, ctl>>

\* adminProcessWithdrawal(withdrawalId, status, adminNotes): one request, run to completion
adminProcessWithdrawal(withdrawalId, status, adminNotes) ==
    IF withdrawalId \notin DOMAIN withdrawals
    THEN /\ last' = Call("adminProcessWithdrawal", withdrawalId, status, 0, 0,
                         NULL, "null")
         /\ UNCHANGED <<balance, withdrawals, transactions, disputes, listings, cart,
                        debits, ctl>>
    ELSE LET existingRequest == withdrawals[withdrawalId]
             seller == existingRequest.seller_id
             withdrawalAmount == existingRequest.amount
         IN IF DebitsOnApproval(status, existingRequest)
                /\ InsufficientSellerBalance(balance[seller], withdrawalAmount)
            THEN /\ last' = Call("adminProcessWithdrawal", withdrawalId, status,
                                 withdrawalAmount, seller, existingRequest.status,
                                 "Insufficient seller balance for withdrawal")
                 /\ UNCHANGED <<balance, withdrawals, transactions, disputes, listings,
                                cart, debits, ctl>>
            ELSE /\ IF DebitsOnApproval(status, existingRequest)
                    THEN /\ balance' = [balance EXCEPT ![seller] = @ - withdrawalAmount]
                         /\ debits' = [debits EXCEPT ![withdrawalId] = @ + 1]
                    ELSE UNCHANGED <<balance, debits>>
                 /\ withdrawals' = [withdrawals EXCEPT ![withdrawalId] =
                                       ProcessedRow(@, status, adminNotes)]
                 /\ last' = Call("adminProcessWithdrawal", withdrawalId, status,
                                 withdrawalAmount, seller, existingRequest.status,
                                 "ok")
                 /\ UNCHANGED <<transactions, disputes, listings, cart, ctl>>

----------------------------------------------------------------------------
(* Dispute resolution engine *)

Max(a, b) == IF a > b THEN a ELSE b

ResolutionAmounts_FeeForgotten(resolution, transactionAmount, platformFee, refundAmount) ==
    CASE resolution = "buyer_favor" ->
           [valid |-> TRUE, buyerRefund |-> transactionAmount, sellerAmount |-> 0]
      [] resolution = "seller_favor" ->
           [valid |-> TRUE, buyerRefund |-> 0,
            sellerAmount |-> transactionAmount - platformFee]
      [] resolution = "partial_refund" ->
           IF ~refundAmount.given \/ refundAmount.value < 0
                 \/ refundAmount.value > transactionAmount
           THEN [valid |-> FALSE, buyerRefund |-> 0, sellerAmount |-> 0]
           ELSE [valid |-> TRUE, buyerRefund |-> refundAmount.value,
                 sellerAmount |-> Max(0, transactionAmount - refundAmount.value)]

\* the switch on the resolution type: the refund and the seller's share
ResolutionAmounts(resolution, transactionAmount, platformFee, refundAmount) ==
    CASE resolution = "buyer_favor" ->
           [valid |-> TRUE, buyerRefund |-> transactionAmount, sellerAmount |-> 0]
      [] resolution = "seller_favor" ->
           [valid |-> TRUE, buyerRefund |-> 0,
            sellerAmount |-> transactionAmount - platformFee]
      [] resolution = "partial_refund" ->
           IF ~refundAmount.given \/ refundAmount.value < 0
                 \/ refundAmount.value > transactionAmount
           THEN [valid |-> FALSE, buyerRefund |-> 0, sellerAmount |-> 0]
           ELSE [valid |-> TRUE, buyerRefund |-> refundAmount.value,
                 sellerAmount |-> Max(0, transactionAmount - refundAmount.value
                                            - platformFee)]

AlreadyResolved_OnlyResolved(dispute) == dispute.status = "resolved"

\* the check that the dispute is not already resolved
AlreadyResolved(dispute) ==
    dispute.status = "resolved" \/ dispute.status = "closed"

ResolvedTransactionStatus_AlwaysCompleted(resolution) == "completed"

\* the status the transaction gets from a resolution
ResolvedTransactionStatus(resolution) ==
    IF resolution = "buyer_favor" THEN "refunded" ELSE "completed"

\* a credit inside the resolution's database transaction: read the row, write the sum
Credit(bal, user, amount) ==
    IF amount > 0 THEN [bal EXCEPT ![user] = @ + amount] ELSE bal

\* adminResolveDispute(disputeId, resolution, adminNotes, refundAmount): one request, run to completion
adminResolveDispute(disputeId, resolution, adminNotes, refundAmount) ==
    IF disputeId \notin DOMAIN disputes
    THEN /\ last' = Call("adminResolveDispute", disputeId, resolution, 0, 0,
                         NULL, "null")
         /\ UNCHANGED <<balance, withdrawals, transactions, disputes, listings, cart,
                        debits, ctl>>
    ELSE LET dispute == disputes[disputeId]
             transaction == transactions[dispute.transaction_id]
             amounts == ResolutionAmounts(resolution, transaction.amount,
                                          transaction.platform_fee, refundAmount)
         IN IF AlreadyResolved(dispute)
            THEN /\ last' = Call("adminResolveDispute", disputeId, resolution,
                                 0, dispute.transaction_id, dispute.status,
                                 "Dispute is already resolved")
                 /\ UNCHANGED <<balance, withdrawals, transactions, disputes, listings,
                                cart, debits, ctl>>
            ELSE IF ~amounts.valid
            THEN /\ last' = Call("adminResolveDispute", disputeId, resolution,
                                 0, dispute.transaction_id, dispute.status,
                                 "Invalid refund amount for partial refund")
                 /\ UNCHANGED <<balance, withdrawals, transactions, disputes, listings,
                                cart, debits, ctl>>
            ELSE /\ disputes' = [disputes EXCEPT ![disputeId] =
                                    [@ EXCEPT !.status = "resolved",
                                              !.admin_notes = adminNotes,
                                              !.resolved_at = "T",
                                              !.updated_at = "T"]]
                 /\ transactions' = [transactions EXCEPT ![dispute.transaction_id] =
                                    [@ EXCEPT !.status = ResolvedTransactionStatus(resolution),
                                              !.updated_at = "T"]]
                 /\ balance' = Credit(Credit(balance, transaction.buyer_id,
                                             amounts.buyerRefund),
                                      transaction.seller_id, amounts.sellerAmount)
                 /\ last' = Call("adminResolveDispute", disputeId, resolution,
                                 IF resolution = "partial_refund"
                                 THEN refundAmount.value ELSE 0,
                                 dispute.transaction_id, dispute.status, "ok")
                 /\ UNCHANGED <<withdrawals, listings, cart, debits, ctl>>

----------------------------------------------------------------------------
(* Specifications: requests served one at a time *)

NoProcs == [p \in Procs |-> Idle]

\* the ledger: one disputed transaction (buyer 1, seller 2) and its dispute
Init ==
    /\ now = 0
    /\ balance \in [UserIds -> InitBalances]
    /\ balance[1] = 0 /\ balance[3] = 0
    /\ balance0 = balance
    /\ withdrawals = <<>>
    /\ debits = <<>>
    /\ \E seed \in SeedAmounts, st \in {"open", "in_review"} :
          /\ transactions = << SeedTransaction(1, 2, 1, seed, "disputed", NULL) >>
          /\ disputes = << SeedDispute(1, 1, 2, st) >>
    /\ listings = << SeedListing(2, 10000, "sold") >>
    /\ cart = {}
    /\ req = NoProcs
    /\ calls = 0
    /\ deliveries = [t \in DOMAIN transactions |-> 0]
    /\ net = [u \in UserIds |-> 0]
    /\ last = NoCall
    /\ reviews = <<>>
    /\ cartSeq = 0

Next ==
    \/ \E d \in 1..2, r \in Resolution, ra \in RefundArgs :
          adminResolveDispute(d, r, "note", ra)
    \/ \E s \in {2, NoUser} : createWithdrawalRequest(s, 10000)
    \/ \E id \in 1..MaxWithdrawals, st \in ProcessStatus :
          adminProcessWithdrawal(id, st, Undefined)

Spec == Init /\ [][Next]_vars

\* the withdrawal engine alone, with every input of its two operations
InitW ==
    /\ now = 0
    /\ balance \in [UserIds -> InitBalances]
    /\ balance[1] = 0 /\ balance[3] = 0
    /\ balance0 = balance
    /\ withdrawals = <<>>
    /\ debits = <<>>
    /\ transactions = <<>>
    /\ disputes = <<>>
    /\ listings = <<>>
    /\ cart = {}
    /\ req = NoProcs
    /\ calls = 0
    /\ deliveries = [t \in DOMAIN transactions |-> 0]
    /\ net = [u \in UserIds |-> 0]
    /\ last = NoCall
    /\ reviews = <<>>
    /\ cartSeq = 0

NextW ==
    \/ \E s \in {2, NoUser}, a \in WithdrawalAmounts : createWithdrawalRequest(s, a)
    \/ \E id \in 1..MaxWithdrawals, st \in ProcessStatus, n \in AdminNotes :
          adminProcessWithdrawal(id, st, n)

SpecW == InitW /\ [][NextW]_vars

----------------------------------------------------------------------------
(* The dispute desk: createDispute and adminResolveDispute, with the clock *)

DisputeStatus == {"open", "in_review", "resolved", "closed"}

\* the clock readings taken, in minutes
Times == {1439, 1441, 1500, 1501}

\* the window measured on the clock alone
WindowExpired_ByClockAlone(created_at, at) ==
    at > DisputeWindowHours * MinutesPerHour

\* hoursSinceTransaction > 24, on the stored created_at and the clock
WindowExpired(created_at, at) ==
    at - created_at > DisputeWindowHours * MinutesPerHour

\* the dispute rows of one transaction
ExistingDisputes(transaction_id) ==
    {d \in DOMAIN disputes : disputes[d].transaction_id = transaction_id}

\* createDispute(input): one request, run to completion
createDispute(transaction_id, buyer_id) ==
    /\ IF transaction_id \notin DOMAIN transactions
       THEN /\ last' = Call("createDispute", transaction_id, NULL, 0, buyer_id, NULL,
                            "Transaction not found or does not belong to buyer")
            /\ UNCHANGED disputes
       ELSE LET transaction == transactions[transaction_id]
                Fail(msg) ==
                    /\ last' = Call("createDispute", transaction_id, NULL, 0, buyer_id,
                                    transaction.status, msg)
                    /\ UNCHANGED disputes
            IN IF transaction.buyer_id # buyer_id
               THEN Fail("Transaction not found or does not belong to buyer")
               ELSE IF WindowExpired(transaction.created_at, now)
               THEN Fail("Dispute window has expired (24 hours after transaction)")
               ELSE IF ExistingDisputes(transaction_id) # {}
               THEN Fail("A dispute already exists for this transaction")
               ELSE /\ disputes' = Append(disputes,
                           SeedDispute(transaction_id, buyer_id, transaction.seller_id,
                                       "open"))
                    /\ last' = Call("createDispute", transaction_id, NULL, 0, buyer_id,
                                    transaction.status, "ok")
    /\ UNCHANGED <<balance, withdrawals, transactions, listings, cart, debits, ctl>>

\* time passes between two requests
Tick ==
    /\ \E t \in Times : t > now /\ now' = t
    /\ UNCHANGED <<balance, withdrawals, transactions, disputes, listings, cart,
                   req, calls, last, debits, deliveries, net, balance0, reviews,
                   cartSeq>>

\* a disputed purchase of buyer 1 from seller 2 whose dispute is in any status,
\* and completed purchases of buyer 1 from seller 3 and of buyer 3 from seller 2
\* nobody has disputed
InitD ==
    /\ now \in {0, 60}
    /\ balance = [u \in UserIds |-> IF u = 1 THEN 5000 ELSE 0]
    /\ balance0 = balance
    /\ withdrawals = <<>>
    /\ debits = <<>>
    /\ \E seed \in SeedAmounts :
          transactions = << SeedTransaction(1, 2, 1, seed, "disputed", NULL),
                            SeedTransaction(1, 3, 2, <<5000, 250>>, "completed", "T"),
                            SeedTransaction(3, 2, 3, <<5000, 250>>, "completed", "T") >>
    /\ \E st \in DisputeStatus : disputes = << SeedDispute(1, 1, 2, st) >>
    /\ listings = << SeedListing(2, 10000, "sold"), SeedListing(3, 5000, "sold"),
                     SeedListing(2, 5000, "sold") >>
    /\ cart = {}
    /\ req = NoProcs
    /\ calls = 0
    /\ deliveries = [t \in DOMAIN transactions |-> 0]
    /\ net = [u \in UserIds |-> 0]
    /\ last = NoCall
    /\ reviews = <<>>
    /\ cartSeq = 0

NextD ==
    \/ \E d \in {1, 4}, r \in Resolution, ra \in RefundArgs :
          adminResolveDispute(d, r, "note", ra)
    \/ \E t \in 1..4, b \in {1, 3} : createDispute(t, b)
    \/ Tick

SpecD == InitD /\ [][NextD]_vars

----------------------------------------------------------------------------
(* Concurrent requests: every store statement (await db...) is one step *)

IsIdle(p) == req[p].pc = "idle"

\* a process takes up a new request
Accept(p) == IsIdle(p) /\ calls < MaxCalls /\ calls' = calls + 1

\* a process returns from its request
Return(p, call) == req' = [req EXCEPT ![p] = Idle] /\ last' = call

Goto(p, r) == req' = [req EXCEPT ![p] = r]

\* the rows a process holds locked: those it has updated inside db.transaction
LocksOf(q) == IF req[q].pc \in {"ard_transaction", "ard_buyer_select",
                                "ard_buyer_update", "ard_seller_select",
                                "ard_seller_update", "ard_commit"}
              THEN req[q].locks ELSE {}

\* an update of a row waits for the transaction that has updated the row
Blocked(p, row) == \E q \in Procs \ {p} : row \in LocksOf(q)

(* getTransactionCredentials: the select, then the update *)

gtc_select(p, transactionId, buyerId) ==
    /\ Accept(p)
    /\ IF transactionId \notin DOMAIN transactions
       THEN Return(p, Call("getTransactionCredentials", transactionId, NULL, 0,
                           buyerId, NULL, "null"))
       ELSE LET transaction == transactions[transactionId]
                listing == listings[transaction.listing_id]
            IN IF \/ transaction.buyer_id # buyerId
                  \/ transaction.status # "completed"
                  \/ transaction.credentials_delivered_at # NULL
               THEN Return(p, Call("getTransactionCredentials", transactionId, NULL,
                                   0, buyerId, transaction.status, "null"))
               ELSE /\ Goto(p, [pc |-> "gtc_update", id |-> transactionId,
                                user |-> buyerId, was |-> transaction.status,
                                creds |-> listing.encrypted_credentials])
                    /\ UNCHANGED last
    /\ UNCHANGED <<balance, withdrawals, transactions, disputes, listings, cart,
                   debits, deliveries, net, balance0, now, reviews, cartSeq>>

gtc_update(p) ==
    /\ req[p].pc = "gtc_update"
    /\ ~Blocked(p, <<"transaction", req[p].id>>)
    /\ transactions' = [transactions EXCEPT ![req[p].id] =
                           [@ EXCEPT !.credentials_delivered_at = "T",
                                     !.updated_at = "T"]]
    /\ deliveries' = [deliveries EXCEPT ![req[p].id] = @ + 1]
    /\ Return(p, Call("getTransactionCredentials", req[p].id, NULL, 0, req[p].user,
                      req[p].was, req[p].creds))
    /\ UNCHANGED <<balance, withdrawals, disputes, listings, cart, calls, debits,
                   net, balance0, now, reviews, cartSeq>>

(* createWithdrawalRequest: the select of the seller, then the insert *)

cwr_select(p, seller_id, amount) ==
    /\ Accept(p)
    /\ IF seller_id \notin UserIds
       THEN Return(p, Call("createWithdrawalRequest", 0, NULL, amount, seller_id,
                           NULL, "Seller not found"))
       ELSE IF InsufficientBalance(balance[seller_id], amount)
       THEN Return(p, Call("createWithdrawalRequest", 0, NULL, amount, seller_id,
                           NULL, "Insufficient balance"))
       ELSE /\ Goto(p, [pc |-> "cwr_insert", user |-> seller_id, amount |-> amount])
            /\ UNCHANGED last
    /\ UNCHANGED <<balance, withdrawals, transactions, disputes, listings, cart,
                   debits, deliveries, net, balance0, now, reviews, cartSeq>>

cwr_insert(p) ==
    /\ req[p].pc = "cwr_insert"
    /\ Len(withdrawals) < MaxWithdrawals
    /\ withdrawals' = Append(withdrawals,
           [seller_id |-> req[p].user, amount |-> req[p].amount,
            status |-> "pending", admin_notes |-> NULL, processed_at |-> NULL])
    /\ debits' = Append(debits, 0)
    /\ Return(p, Call("createWithdrawalRequest", Len(withdrawals) + 1, NULL,
                      req[p].amount, req[p].user, NULL, "ok"))
    /\ UNCHANGED <<balance, transactions, disputes, listings, cart, calls,
                   deliveries, net, balance0, now, reviews, cartSeq>>

(* adminProcessWithdrawal: select request, select seller, update seller, update request *)

apw_select(p, withdrawalId, status, adminNotes) ==
    /\ Accept(p)
    /\ IF withdrawalId \notin DOMAIN withdrawals
       THEN Return(p, Call("adminProcessWithdrawal", withdrawalId, status, 0, 0,
                           NULL, "null"))
       ELSE LET existingRequest == withdrawals[withdrawalId]
                r == [pc |-> "apw_update", id |-> withdrawalId, arg |-> status,
                      notes |-> adminNotes, user |-> existingRequest.seller_id,
                      amount |-> existingRequest.amount,
                      was |-> existingRequest.status, newBalance |-> 0]
            IN /\ Goto(p, IF DebitsOnApproval(status, existingRequest)
                          THEN [r EXCEPT !.pc = "apw_seller"] ELSE r)
               /\ UNCHANGED last
    /\ UNCHANGED <<balance, withdrawals, transactions, disputes, listings, cart,
                   debits, deliveries, net, balance0, now, reviews, cartSeq>>

apw_seller(p) ==
    /\ req[p].pc = "apw_seller"
    /\ LET currentBalance == balance[req[p].user]
       IN IF InsufficientSellerBalance(currentBalance, req[p].amount)
          THEN Return(p, Call("adminProcessWithdrawal", req[p].id, req[p].arg,
                              req[p].amount, req[p].user, req[p].was,
                              "Insufficient seller balance for withdrawal"))
          ELSE /\ Goto(p, [req[p] EXCEPT !.pc = "apw_debit",
                                         !.newBalance = currentBalance - req[p].amount])
               /\ UNCHANGED last
    /\ UNCHANGED <<balance, withdrawals, transactions, disputes, listings, cart,
                   calls, debits, deliveries, net, balance0, now, reviews, cartSeq>>

apw_debit(p) ==
    /\ req[p].pc = "apw_debit"
    /\ ~Blocked(p, <<"user", req[p].user>>)
    /\ balance' = [balance EXCEPT ![req[p].user] = req[p].newBalance]
    /\ debits' = [debits EXCEPT ![req[p].id] = @ + 1]
    /\ net' = [net EXCEPT ![req[p].user] = @ - req[p].amount]
    /\ Goto(p, [req[p] EXCEPT !.pc = "apw_update"])
    /\ UNCHANGED <<withdrawals, transactions, disputes, listings, cart, calls, last,
                   deliveries, balance0, now, reviews, cartSeq>>

apw_update(p) ==
    /\ req[p].pc = "apw_update"
    /\ withdrawals' = [withdrawals EXCEPT ![req[p].id] =
                          ProcessedRow(@, req[p].arg, req[p].notes)]
    /\ Return(p, Call("adminProcessWithdrawal", req[p].id, req[p].arg,
                      req[p].amount, req[p].user, req[p].was, "ok"))
    /\ UNCHANGED <<balance, transactions, disputes, listings, cart, calls, debits,
                   deliveries, net, balance0, now, reviews, cartSeq>>

(* adminResolveDispute: the select, then db.transaction: update dispute, update *)
(* transaction, select and update buyer, select and update seller, commit.     *)
(* What the database transaction writes is seen by the others at its commit.   *)

NoWrite == [set |-> FALSE, value |-> 0, delta |-> 0]

\* the balance a statement inside the database transaction reads
TxBalance(p, user) ==
    IF req[p].wbal[user].set THEN req[p].wbal[user].value ELSE balance[user]

ard_select(p, disputeId, resolution, adminNotes, refundAmount) ==
    /\ Accept(p)
    /\ IF disputeId \notin DOMAIN disputes
       THEN Return(p, Call("adminResolveDispute", disputeId, resolution, 0, 0,
                           NULL, "null"))
       ELSE LET dispute == disputes[disputeId]
                transaction == transactions[dispute.transaction_id]
                amounts == ResolutionAmounts(resolution, transaction.amount,
                                             transaction.platform_fee, refundAmount)
            IN IF AlreadyResolved(dispute)
               THEN Return(p, Call("adminResolveDispute", disputeId, resolution, 0,
                                   dispute.transaction_id, dispute.status,
                                   "Dispute is already resolved"))
               ELSE IF ~amounts.valid
               THEN Return(p, Call("adminResolveDispute", disputeId, resolution, 0,
                                   dispute.transaction_id, dispute.status,
                                   "Invalid refund amount for partial refund"))
               ELSE /\ Goto(p, [pc |-> "ard_dispute", id |-> disputeId,
                                arg |-> resolution, notes |-> adminNotes,
                                tid |-> dispute.transaction_id,
                                buyer |-> transaction.buyer_id,
                                seller |-> transaction.seller_id,
                                was |-> dispute.status,
                                buyerRefund |-> amounts.buyerRefund,
                                sellerAmount |-> amounts.sellerAmount,
                                read |-> 0, locks |-> {},
                                wbal |-> [u \in UserIds |-> NoWrite]])
                    /\ UNCHANGED last
    /\ UNCHANGED <<balance, withdrawals, transactions, disputes, listings, cart,
                   debits, deliveries, net, balance0, now, reviews, cartSeq>>

ard_dispute(p) ==
    /\ req[p].pc = "ard_dispute"
    /\ ~Blocked(p, <<"dispute", req[p].id>>)
    /\ Goto(p, [req[p] EXCEPT !.pc = "ard_transaction",
                              !.locks = @ \cup {<<"dispute", req[p].id>>}])
    /\ UNCHANGED <<balance, withdrawals, transactions, disputes, listings, cart,
                   calls, last, debits, deliveries, net, balance0, now, reviews,
                   cartSeq>>

ard_transaction(p) ==
    /\ req[p].pc = "ard_transaction"
    /\ ~Blocked(p, <<"transaction", req[p].tid>>)
    /\ Goto(p, [req[p] EXCEPT !.pc = IF req[p].buyerRefund > 0 THEN "ard_buyer_select"
                                     ELSE IF req[p].sellerAmount > 0
                                     THEN "ard_seller_select" ELSE "ard_commit",
                              !.locks = @ \cup {<<"transaction", req[p].tid>>}])
    /\ UNCHANGED <<balance, withdrawals, transactions, disputes, listings, cart,
                   calls, last, debits, deliveries, net, balance0, now, reviews,
                   cartSeq>>

ard_buyer_select(p) ==
    /\ req[p].pc = "ard_buyer_select"
    /\ Goto(p, [req[p] EXCEPT !.pc = "ard_buyer_update",
                              !.read = TxBalance(p, req[p].buyer)])
    /\ UNCHANGED <<balance, withdrawals, transactions, disputes, listings, cart,
                   calls, last, debits, deliveries, net, balance0, now, reviews,
                   cartSeq>>

\* the buyer's update issued on db instead of tx: written at once
ard_buyer_update_Untransacted(p) ==
    /\ req[p].pc = "ard_buyer_update"
    /\ ~Blocked(p, <<"user", req[p].buyer>>)
    /\ balance' = [balance EXCEPT ![req[p].buyer] = req[p].read + req[p].buyerRefund]
    /\ net' = [net EXCEPT ![req[p].buyer] = @ + req[p].buyerRefund]
    /\ Goto(p, [req[p] EXCEPT
                  !.pc = IF req[p].sellerAmount > 0 THEN "ard_seller_select"
                         ELSE "ard_commit"])
    /\ UNCHANGED <<withdrawals, transactions, disputes, listings, cart,
                   calls, last, debits, deliveries, balance0, now, reviews, cartSeq>>

ard_buyer_update(p) ==
    /\ req[p].pc = "ard_buyer_update"
    /\ ~Blocked(p, <<"user", req[p].buyer>>)
    /\ Goto(p, [req[p] EXCEPT
                  !.pc = IF req[p].sellerAmount > 0 THEN "ard_seller_select"
                         ELSE "ard_commit",
                  !.locks = @ \cup {<<"user", req[p].buyer>>},
                  !.wbal[req[p].buyer] =
                      [set |-> TRUE, value |-> req[p].read + req[p].buyerRefund,
                       delta |-> @.delta + req[p].buyerRefund]])
    /\ UNCHANGED <<balance, withdrawals, transactions, disputes, listings, cart,
                   calls, last, debits, deliveries, net, balance0, now, reviews,
                   cartSeq>>

ard_seller_select(p) ==
    /\ req[p].pc = "ard_seller_select"
    /\ Goto(p, [req[p] EXCEPT !.pc = "ard_seller_update",
                              !.read = TxBalance(p, req[p].seller)])
    /\ UNCHANGED <<balance, withdrawals, transactions, disputes, listings, cart,
                   calls, last, debits, deliveries, net, balance0, now, reviews,
                   cartSeq>>

ard_seller_update(p) ==
    /\ req[p].pc = "ard_seller_update"
    /\ ~Blocked(p, <<"user", req[p].seller>>)
    /\ Goto(p, [req[p] EXCEPT
                  !.pc = "ard_commit",
                  !.locks = @ \cup {<<"user", req[p].seller>>},
                  !.wbal[req[p].seller] =
                      [set |-> TRUE, value |-> req[p].read + req[p].sellerAmount,
                       delta |-> @.delta + req[p].sellerAmount]])
    /\ UNCHANGED <<balance, withdrawals, transactions, disputes, listings, cart,
                   calls, last, debits, deliveries, net, balance0, now, reviews,
                   cartSeq>>

ard_commit(p) ==
    /\ req[p].pc = "ard_commit"
    /\ disputes' = [disputes EXCEPT ![req[p].id] =
                       [@ EXCEPT !.status = "resolved",
                                 !.admin_notes = req[p].notes,
                                 !.resolved_at = "T",
                                 !.updated_at = "T"]]
    /\ transactions' = [transactions EXCEPT ![req[p].tid] =
                           [@ EXCEPT !.status = ResolvedTransactionStatus(req[p].arg),
                                     !.updated_at = "T"]]
    /\ balance' = [u \in UserIds |->
                      IF req[p].wbal[u].set THEN req[p].wbal[u].value ELSE balance[u]]
    /\ net' = [u \in UserIds |-> net[u] + req[p].wbal[u].delta]
    /\ Return(p, Call("adminResolveDispute", req[p].id, req[p].arg, 0, req[p].tid,
                      req[p].was, "ok"))
    /\ UNCHANGED <<withdrawals, listings, cart, calls, debits, deliveries, balance0, now, reviews,
                   cartSeq>>

\* a statement inside db.transaction fails: the database transaction is rolled
\* back, nothing it wrote is kept, and the request ends with the error (the
\* call record keeps the buyer credit that was rolled back)
ard_abort(p) ==
    /\ req[p].pc \in {"ard_dispute", "ard_transaction", "ard_buyer_select",
                      "ard_buyer_update", "ard_seller_select", "ard_seller_update",
                      "ard_commit"}
    /\ Return(p, Call("adminResolveDispute", req[p].id, req[p].arg,
                      req[p].wbal[req[p].buyer].delta, req[p].tid, req[p].was,
                      "error"))
    /\ UNCHANGED <<balance, withdrawals, transactions, disputes, listings, cart,
                   calls, debits, deliveries, net, balance0, now, reviews, cartSeq>>

(* createDispute: select the transaction, select its disputes, insert *)

cd_select(p, transaction_id, buyer_id) ==
    /\ Accept(p)
    /\ IF transaction_id \notin DOMAIN transactions
       THEN Return(p, Call("createDispute", transaction_id, NULL, 0, buyer_id, NULL,
                           "Transaction not found or does not belong to buyer"))
       ELSE LET transaction == transactions[transaction_id]
            IN IF transaction.buyer_id # buyer_id
               THEN Return(p, Call("createDispute", transaction_id, NULL, 0, buyer_id,
                                   transaction.status,
                                   "Transaction not found or does not belong to buyer"))
               ELSE IF WindowExpired(transaction.created_at, now)
               THEN Return(p, Call("createDispute", transaction_id, NULL, 0, buyer_id,
                                   transaction.status,
                                   "Dispute window has expired (24 hours after transaction)"))
               ELSE /\ Goto(p, [pc |-> "cd_exists", id |-> transaction_id,
                                user |-> buyer_id, seller |-> transaction.seller_id,
                                was |-> transaction.status])
                    /\ UNCHANGED last
    /\ UNCHANGED <<balance, withdrawals, transactions, disputes, listings, cart,
                   debits, deliveries, net, balance0, now, reviews, cartSeq>>

cd_exists(p) ==
    /\ req[p].pc = "cd_exists"
    /\ IF ExistingDisputes(req[p].id) # {}
       THEN Return(p, Call("createDispute", req[p].id, NULL, 0, req[p].user,
                           req[p].was, "A dispute already exists for this transaction"))
       ELSE Goto(p, [req[p] EXCEPT !.pc = "cd_insert"]) /\ UNCHANGED last
    /\ UNCHANGED <<balance, withdrawals, transactions, disputes, listings, cart,
                   calls, debits, deliveries, net, balance0, now, reviews, cartSeq>>

cd_insert(p) ==
    /\ req[p].pc = "cd_insert"
    /\ disputes' = Append(disputes,
                      SeedDispute(req[p].id, req[p].user, req[p].seller, "open"))
    /\ Return(p, Call("createDispute", req[p].id, NULL, 0, req[p].user, req[p].was,
                      "ok"))
    /\ UNCHANGED <<balance, withdrawals, transactions, listings, cart, calls, debits,
                   deliveries, net, balance0, now, reviews, cartSeq>>

(* checkout: select buyer, select the cart rows, select the buyer's cart rows   *)
(* joined with their listings; then for every seller: insert the transaction,  *)
(* update the listing, select and update the seller; at last delete the rows.  *)

\* the ids in the cart_items array
Range(f) == {f[i] : i \in DOMAIN f}

Min(S) == CHOOSE x \in S : \A y \in S : x <= y

\* numeric(10,2): a value given in hundredths of a cent, as the column stores
\* it (PostgreSQL rounds a numeric half away from zero; the values are >= 0)
RoundCents(x) == (x + 50) \div 100

RECURSIVE TotalAmount_IgnoresQuantity(_)
\* the prices summed without the quantities
TotalAmount_IgnoresQuantity(items) ==
    IF items = {} THEN 0
    ELSE LET item == CHOOSE i \in items : TRUE
         IN item.listing_price + TotalAmount_IgnoresQuantity(items \ {item})

RECURSIVE TotalAmount(_)
\* sum of price * quantity over the joined cart rows of one seller
TotalAmount(items) ==
    IF items = {} THEN 0
    ELSE LET item == CHOOSE i \in items : TRUE
         IN item.listing_price * item.quantity + TotalAmount(items \ {item})

\* the platform fee as the transaction row stores it
PlatformFee(totalAmount) == RoundCents(totalAmount * PlatformFeeRate)

\* the seller's balance after the credit of amount minus fee, as stored
NewSellerBalance(currentBalance, totalAmount) ==
    RoundCents(currentBalance * 100 + totalAmount * 100
               - totalAmount * PlatformFeeRate)

\* the joined rows of the seller whose turn it is, and the first of them
SellerItems(p) == {i \in req[p].items : i.seller_id = Min(req[p].sellers)}
PrimaryListing(p) ==
    (CHOOSE i \in SellerItems(p) : \A j \in SellerItems(p) : i.cart_id <= j.cart_id).listing_id

CheckoutCall(p, result) ==
    Call("checkout", 0, NULL, 0, req[p].user, NULL, result)

co_buyer(p, buyer_id, cart_items) ==
    /\ Accept(p)
    /\ IF buyer_id \notin UserIds
       THEN Return(p, Call("checkout", 0, NULL, 0, buyer_id, NULL, "Buyer not found"))
       ELSE /\ Goto(p, [pc |-> "co_all", user |-> buyer_id, cart_items |-> cart_items,
                        items |-> {}, sellers |-> {}, newBalance |-> 0, read |-> 0])
            /\ UNCHANGED last
    /\ UNCHANGED <<balance, withdrawals, transactions, disputes, listings, cart,
                   debits, deliveries, net, balance0, now, reviews, cartSeq>>

co_all(p) ==
    /\ req[p].pc = "co_all"
    /\ LET allCartItems == {c \in cart : c.id \in Range(req[p].cart_items)}
       IN IF Cardinality(allCartItems) = 0
             \/ Cardinality(allCartItems) # Len(req[p].cart_items)
          THEN Return(p, CheckoutCall(p, "No valid cart items found for checkout"))
          ELSE Goto(p, [req[p] EXCEPT !.pc = "co_items"]) /\ UNCHANGED last
    /\ UNCHANGED <<balance, withdrawals, transactions, disputes, listings, cart,
                   calls, debits, deliveries, net, balance0, now, reviews, cartSeq>>

co_items(p) ==
    /\ req[p].pc = "co_items"
    /\ LET cartItems ==
              {[cart_id |-> c.id, listing_id |-> c.listing_id,
                quantity |-> c.quantity,
                listing_price |-> listings[c.listing_id].price,
                seller_id |-> listings[c.listing_id].seller_id,
                listing_status |-> listings[c.listing_id].status] :
                   c \in {c \in cart : /\ c.buyer_id = req[p].user
                                       /\ c.id \in Range(req[p].cart_items)}}
       IN IF Cardinality(cartItems) # Len(req[p].cart_items)
          THEN Return(p, CheckoutCall(p,
                  "Some cart items are invalid or do not belong to the buyer"))
          ELSE IF \E i \in cartItems : i.listing_status # "active"
          THEN Return(p, CheckoutCall(p, "Listings are no longer available"))
          ELSE IF \E i \in cartItems : i.seller_id = req[p].user
          THEN Return(p, CheckoutCall(p, "Cannot purchase your own listings"))
          ELSE /\ Goto(p, [req[p] EXCEPT !.pc = "co_insert", !.items = cartItems,
                              !.sellers = {i.seller_id : i \in cartItems}])
               /\ UNCHANGED last
    /\ UNCHANGED <<balance, withdrawals, transactions, disputes, listings, cart,
                   calls, debits, deliveries, net, balance0, now, reviews, cartSeq>>

co_insert(p) ==
    /\ req[p].pc = "co_insert"
    /\ LET totalAmount == TotalAmount(SellerItems(p))
       IN /\ transactions' = Append(transactions,
                 TransactionRow(req[p].user, Min(req[p].sellers), PrimaryListing(p),
                                totalAmount, PlatformFee(totalAmount), "completed",
                                now + EscrowHours * MinutesPerHour, "T"))
          /\ deliveries' = Append(deliveries, 0)
    /\ Goto(p, [req[p] EXCEPT !.pc = "co_listing"])
    /\ UNCHANGED <<balance, withdrawals, disputes, listings, cart, calls, last,
                   debits, net, balance0, now, reviews, cartSeq>>

co_listing(p) ==
    /\ req[p].pc = "co_listing"
    /\ listings' = [listings EXCEPT ![PrimaryListing(p)] = [@ EXCEPT !.status = "sold"]]
    /\ Goto(p, [req[p] EXCEPT !.pc = "co_seller_select"])
    /\ UNCHANGED <<balance, withdrawals, transactions, disputes, cart, calls, last,
                   debits, deliveries, net, balance0, now, reviews, cartSeq>>

co_seller_select(p) ==
    /\ req[p].pc = "co_seller_select"
    /\ LET seller == Min(req[p].sellers)
       IN Goto(p, [req[p] EXCEPT
                     !.pc = "co_seller_update",
                     !.read = balance[seller],
                     !.newBalance = NewSellerBalance(balance[seller],
                                                     TotalAmount(SellerItems(p)))])
    /\ UNCHANGED <<balance, withdrawals, transactions, disputes, listings, cart,
                   calls, last, debits, deliveries, net, balance0, now, reviews,
                   cartSeq>>

co_seller_update(p) ==
    /\ req[p].pc = "co_seller_update"
    /\ LET seller == Min(req[p].sellers)
       IN /\ ~Blocked(p, <<"user", seller>>)
          /\ balance' = [balance EXCEPT ![seller] = req[p].newBalance]
          /\ net' = [net EXCEPT ![seller] = @ + req[p].newBalance - req[p].read]
          /\ Goto(p, [req[p] EXCEPT
                        !.pc = IF req[p].sellers = {seller} THEN "co_delete"
                               ELSE "co_insert",
                        !.sellers = @ \ {seller}])
    /\ UNCHANGED <<withdrawals, transactions, disputes, listings, cart, calls, last,
                   debits, deliveries, balance0, now, reviews, cartSeq>>

co_delete(p) ==
    /\ req[p].pc = "co_delete"
    /\ cart' = {c \in cart : ~(/\ c.buyer_id = req[p].user
                               /\ c.id \in Range(req[p].cart_items))}
    /\ Return(p, CheckoutCall(p, "ok"))
    /\ UNCHANGED <<balance, withdrawals, transactions, disputes, listings, calls,
                   debits, deliveries, net, balance0, now, reviews, cartSeq>>

\* the statements of checkout inside its try block
CheckoutSteps == {"co_all", "co_items", "co_insert", "co_listing",
                  "co_seller_select", "co_seller_update", "co_delete"}

\* the statement about to run is rejected by the store (connection lost,
\* numeric overflow of the balance, ...): the catch block logs and rethrows;
\* checkout opens no db.transaction, so what was written stays written
co_fail(p) ==
    /\ req[p].pc \in CheckoutSteps
    /\ Return(p, CheckoutCall(p, "error"))
    /\ UNCHANGED <<balance, withdrawals, transactions, disputes, listings, cart,
                   calls, debits, deliveries, net, balance0, now, reviews, cartSeq>>

----------------------------------------------------------------------------
(* checkout: one request, run to completion *)

\* ids of cartItemsTable rows; the last one has no row
CartIds == 1..6

\* the cart_items arrays supplied: every array up to MaxItems ids, repeated and
\* missing ids included, and the buyer's three good rows together
CartLists ==
    UNION {[1..n -> CartIds] : n \in 1..MaxItems} \cup {<<1, 2, 3>>}

\* the rows found by id alone
AllCartItems(cart_items) == {c \in cart : c.id \in Range(cart_items)}

\* the buyer's rows among them, joined with their listings
CartItems(buyer_id, cart_items) ==
    {[cart_id |-> c.id, listing_id |-> c.listing_id, quantity |-> c.quantity,
      listing_price |-> listings[c.listing_id].price,
      seller_id |-> listings[c.listing_id].seller_id,
      listing_status |-> listings[c.listing_id].status] :
         c \in {c \in AllCartItems(cart_items) : c.buyer_id = buyer_id}}

\* itemsBySeller[sellerId]
ItemsBySeller(cartItems, seller) == {i \in cartItems : i.seller_id = seller}

\* sellerItems[0] for every seller: the select has no ORDER BY, so any row of
\* the group may come first
PrimaryListings(cartItems) ==
    LET sellers == {i.seller_id : i \in cartItems}
    IN {f \in [sellers -> {i.listing_id : i \in cartItems}] :
          \A sl \in sellers :
             f[sl] \in {i.listing_id : i \in ItemsBySeller(cartItems, sl)}}

\* every listing of the group marked, where the code marks the primary one
SoldListings_WholeGroup(cartItems, primary) == {i.listing_id : i \in cartItems}

\* the listings checkout sets to sold
SoldListings(cartItems, primary) == {primary[sl] : sl \in DOMAIN primary}

RECURSIVE NewTransactions_Pending(_, _, _, _)
\* the rows inserted as awaiting payment
NewTransactions_Pending(buyer_id, cartItems, sellers, primary) ==
    IF sellers = {} THEN <<>>
    ELSE LET sellerId == Min(sellers)
             totalAmount == TotalAmount(ItemsBySeller(cartItems, sellerId))
         IN << TransactionRow(buyer_id, sellerId, primary[sellerId], totalAmount,
                              PlatformFee(totalAmount), "pending",
                              now + EscrowHours * MinutesPerHour, "T") >>
            \o NewTransactions_Pending(buyer_id, cartItems, sellers \ {sellerId},
                                       primary)

RECURSIVE NewTransactions(_, _, _, _)
\* the rows inserted, one per seller, in the order of Object.entries
NewTransactions(buyer_id, cartItems, sellers, primary) ==
    IF sellers = {} THEN <<>>
    ELSE LET sellerId == Min(sellers)
             totalAmount == TotalAmount(ItemsBySeller(cartItems, sellerId))
         IN << TransactionRow(buyer_id, sellerId, primary[sellerId], totalAmount,
                              PlatformFee(totalAmount), "completed",
                              now + EscrowHours * MinutesPerHour, "T") >>
            \o NewTransactions(buyer_id, cartItems, sellers \ {sellerId}, primary)

\* the request served and what it returned
CheckoutReturn(buyer_id, cart_items, result, returned) ==
    [op |-> "checkout", id |-> 0, arg |-> NULL, amount |-> 0, user |-> buyer_id,
     was |-> NULL, result |-> result, cart_items |-> cart_items,
     returned |-> returned]

\* the second precondition: no row, or fewer rows than ids supplied
NoValidCartItems(allCartItems, cart_items) ==
    \/ Cardinality(allCartItems) = 0
    \/ Cardinality(allCartItems) # Len(cart_items)

\* the preconditions in the order checkout tests them: the error thrown, or "ok"
CheckoutError(buyer_id, cart_items) ==
    LET allCartItems == AllCartItems(cart_items)
        cartItems == CartItems(buyer_id, cart_items)
    IN IF buyer_id \notin UserIds
       THEN "Buyer not found"
       ELSE IF NoValidCartItems(allCartItems, cart_items)
       THEN "No valid cart items found for checkout"
       ELSE IF Cardinality(cartItems) # Len(cart_items)
       THEN "Some cart items are invalid or do not belong to the buyer"
       ELSE IF \E i \in cartItems : i.listing_status # "active"
       THEN "Listings are no longer available"
       ELSE IF \E i \in cartItems : i.seller_id = buyer_id
       THEN "Cannot purchase your own listings"
       ELSE "ok"

\* the final delete without the inArray condition: the buyer's whole cart
ClearedCart_WholeCart(buyer_id, cart_items) ==
    {c \in cart : ~(c.buyer_id = buyer_id)}

\* the rows of the final delete
ClearedCart(buyer_id, cart_items) ==
    {c \in cart : ~(c.buyer_id = buyer_id /\ c.id \in Range(cart_items))}

\* the loop over the sellers and the final delete
Purchase(buyer_id, cart_items) ==
    LET cartItems == CartItems(buyer_id, cart_items)
        sellers == {i.seller_id : i \in cartItems}
    IN \E primary \in PrimaryListings(cartItems) :
          LET new == NewTransactions(buyer_id, cartItems, sellers, primary)
          IN /\ transactions' = transactions \o new
             /\ deliveries' = deliveries \o [n \in DOMAIN new |-> 0]
             /\ listings' =
                   [l \in DOMAIN listings |->
                      IF l \in SoldListings(cartItems, primary)
                      THEN [listings[l] EXCEPT !.status = "sold"]
                      ELSE listings[l]]
             /\ balance' =
                   [u \in UserIds |->
                      IF u \in sellers
                      THEN NewSellerBalance(balance[u],
                              TotalAmount(ItemsBySeller(cartItems, u)))
                      ELSE balance[u]]
             /\ cart' = ClearedCart(buyer_id, cart_items)
             /\ last' = CheckoutReturn(buyer_id, cart_items, "ok", new)

\* checkout with the cart cleared before the preconditions are tested
checkout_ClearsCartFirst(buyer_id, cart_items) ==
    /\ IF CheckoutError(buyer_id, cart_items) # "ok"
       THEN /\ last' = CheckoutReturn(buyer_id, cart_items,
                                      CheckoutError(buyer_id, cart_items), <<>>)
            /\ cart' = ClearedCart(buyer_id, cart_items)
            /\ UNCHANGED <<balance, transactions, listings, deliveries>>
       ELSE Purchase(buyer_id, cart_items)
    /\ UNCHANGED <<withdrawals, disputes, debits, req, calls, net, balance0, now, reviews,
                   cartSeq>>

\* checkout(input): one request, run to completion
checkout(buyer_id, cart_items) ==
    /\ IF CheckoutError(buyer_id, cart_items) # "ok"
       THEN /\ last' = CheckoutReturn(buyer_id, cart_items,
                                      CheckoutError(buyer_id, cart_items), <<>>)
            /\ UNCHANGED <<balance, transactions, listings, cart, deliveries>>
       ELSE Purchase(buyer_id, cart_items)
    /\ UNCHANGED <<withdrawals, disputes, debits, req, calls, net, balance0, now, reviews,
                   cartSeq>>

CartRow(id, buyer, listing, quantity) ==
    [id |-> id, buyer_id |-> buyer, listing_id |-> listing, quantity |-> quantity]

\* the shop: seller 2 offers two listings, seller 3 one, buyer 1 one of their
\* own; buyer 1 has carted all four, buyer 3 the first
InitShop ==
    /\ now \in {0, 60}
    /\ balance = [u \in UserIds |-> IF u = 2 THEN 10000 ELSE 0]
    /\ balance0 = balance
    /\ withdrawals = <<>>
    /\ debits = <<>>
    /\ transactions = <<>>
    /\ disputes = <<>>
    /\ listings = << SeedListing(2, 2010, "active"), SeedListing(2, 5000, "active"),
                     SeedListing(3, 3000, "active"), SeedListing(1, 2500, "active") >>
    /\ cart = { CartRow(1, 1, 1, 1), CartRow(2, 1, 2, 2), CartRow(3, 1, 3, 1),
                CartRow(4, 1, 4, 1), CartRow(5, 3, 1, 1) }
    /\ req = NoProcs
    /\ calls = 0
    /\ deliveries = <<>>
    /\ net = [u \in UserIds |-> 0]
    /\ last = NoCall
    /\ reviews = <<>>
    /\ cartSeq = 5

NextShop ==
    \/ \E ids \in CartLists : checkout(1, ids)
    \/ \E b \in {3, NoUser}, ids \in {<<1>>, <<5>>} : checkout(b, ids)

SpecShop == InitShop /\ [][NextShop]_vars

----------------------------------------------------------------------------
(* The market: listings, their moderation, and the carts *)

ListingStatus == {"active", "sold", "removed", "under_review"}
\* the statuses the adminModerateListing procedure accepts
ModerationStatus == {"active", "removed"}

\* the users with is_verified set; registerUser stores false and no handler
\* sets it, so the verified users are those the store was seeded with
Verified == {1, 2}

\* raw credentials of a listing
Credentials == {"pw", "s3cret"}

\* Buffer.from(credentials).toString('base64')
Base64(credentials) ==
    CASE credentials = "pw" -> "cHc="
      [] credentials = "s3cret" -> "czNjcmV0"

\* the row createListing inserts
NewListing(seller_id, price, credentials) ==
    [seller_id |-> seller_id, price |-> price, status |-> "under_review",
     encrypted_credentials |-> Base64(credentials)]

\* createListing(input): one request, run to completion
createListing(seller_id, price, credentials) ==
    /\ IF seller_id \notin UserIds
       THEN /\ last' = Call("createListing", 0, credentials, price, seller_id, NULL,
                            "Seller not found")
            /\ UNCHANGED listings
       ELSE IF seller_id \notin Verified
       THEN /\ last' = Call("createListing", 0, credentials, price, seller_id, NULL,
                            "Seller must be verified to create listings")
            /\ UNCHANGED listings
       ELSE /\ Len(listings) < MaxListings
            /\ listings' = Append(listings,
                              NewListing(seller_id, price, credentials))
            /\ last' = Call("createListing", Len(listings) + 1, credentials, price,
                            seller_id, NULL, "ok")
    /\ UNCHANGED <<balance, withdrawals, transactions, disputes, cart, debits, ctl>>

\* adminModerateListing(listingId, status, adminNotes)
adminModerateListing(listingId, status) ==
    /\ IF listingId \notin DOMAIN listings
       THEN /\ last' = Call("adminModerateListing", listingId, status, 0, 0, NULL, NULL)
            /\ UNCHANGED listings
       ELSE /\ listings' = [listings EXCEPT ![listingId] = [@ EXCEPT !.status = status]]
            /\ last' = Call("adminModerateListing", listingId, status, 0, 0,
                            listings[listingId].status, "ok")
    /\ UNCHANGED <<balance, withdrawals, transactions, disputes, cart, debits, ctl>>

\* updateListing(input): the fields given are written, status among them
updateListing(id, price, status) ==
    /\ IF id \notin DOMAIN listings
       THEN /\ last' = Call("updateListing", id, status, 0, 0, NULL, NULL)
            /\ UNCHANGED listings
       ELSE /\ listings' =
                  [listings EXCEPT ![id] =
                     [@ EXCEPT !.price = IF price.given THEN price.value ELSE @,
                               !.status = IF status # Undefined THEN status ELSE @]]
            /\ last' = Call("updateListing", id, status, 0, 0, listings[id].status,
                            "ok")
    /\ UNCHANGED <<balance, withdrawals, transactions, disputes, cart, debits, ctl>>

\* the check of the listing with every status let through
AddToCartError_AnyStatus(listing_id) ==
    IF listing_id \notin DOMAIN listings THEN "Listing not found" ELSE "ok"

\* the check of the listing in addToCart: the error thrown, or "ok"
AddToCartError(listing_id) ==
    IF listing_id \notin DOMAIN listings
    THEN "Listing not found"
    ELSE IF listings[listing_id].status # "active"
    THEN "Listing is not active"
    ELSE "ok"

\* the rows of the buyer with the listing
ExistingCartItems_None(buyer_id, listing_id) == {}

ExistingCartItems(buyer_id, listing_id) ==
    {c \in cart : c.buyer_id = buyer_id /\ c.listing_id = listing_id}

\* addToCart(input): one request, run to completion. The insert of a row for a
\* buyer_id without a user is refused by the foreign key, after the serial
\* has given out the id.
addToCart(buyer_id, listing_id, quantity) ==
    LET error == AddToCartError(listing_id)
        was == IF listing_id \in DOMAIN listings THEN listings[listing_id].status
               ELSE NULL
        Reply(result) ==
           last' = Call("addToCart", listing_id, NULL, quantity, buyer_id, was, result)
    IN /\ IF error # "ok"
          THEN Reply(error) /\ UNCHANGED <<cart, cartSeq>>
          ELSE IF ExistingCartItems(buyer_id, listing_id) # {}
          THEN /\ \E existingItem \in ExistingCartItems(buyer_id, listing_id) :
                     /\ existingItem.quantity + quantity <= MaxQuantity
                     /\ cart' = (cart \ {existingItem})
                                \cup {[existingItem EXCEPT !.quantity = @ + quantity]}
               /\ Reply("ok")
               /\ UNCHANGED cartSeq
          ELSE /\ cartSeq < MaxCartRows
               /\ cartSeq' = cartSeq + 1
               /\ IF buyer_id \notin UserIds
                  THEN Reply("error") /\ UNCHANGED cart
                  ELSE /\ cart' = cart \cup {CartRow(cartSeq + 1, buyer_id,
                                                     listing_id, quantity)}
                       /\ Reply("ok")
       /\ UNCHANGED <<balance, withdrawals, transactions, disputes, listings, debits,
                      req, calls, deliveries, net, balance0, now, reviews>>

\* removeFromCart(cartItemId, buyerId)
removeFromCart(cartItemId, buyerId) ==
    LET rows == {c \in cart : c.id = cartItemId /\ c.buyer_id = buyerId}
    IN /\ cart' = cart \ rows
       /\ last' = Call("removeFromCart", cartItemId, NULL, 0, buyerId, NULL,
                       IF rows # {} THEN "true" ELSE "false")
       /\ UNCHANGED <<balance, withdrawals, transactions, disputes, listings, debits,
                      ctl>>

----------------------------------------------------------------------------
(* The vault: credentials are released to the buyer on request *)

TransactionStatus == {"pending", "completed", "disputed", "refunded", "cancelled"}

\* the four tests of getTransactionCredentials with the buyer test left out
NoDelivery_AnyBuyer(transactionId, buyerId) ==
    \/ transactionId \notin DOMAIN transactions
    \/ transactions[transactionId].status # "completed"
    \/ transactions[transactionId].credentials_delivered_at # NULL

\* the four tests of getTransactionCredentials that end in `return null`
NoDelivery(transactionId, buyerId) ==
    \/ transactionId \notin DOMAIN transactions
    \/ transactions[transactionId].buyer_id # buyerId
    \/ transactions[transactionId].status # "completed"
    \/ transactions[transactionId].credentials_delivered_at # NULL

\* getTransactionCredentials(transactionId, buyerId): one request, run to
\* completion; what it returns is listing.encrypted_credentials as stored
getTransactionCredentials(transactionId, buyerId) ==
    /\ IF NoDelivery(transactionId, buyerId)
       THEN /\ last' = Call("getTransactionCredentials", transactionId, NULL, 0,
                            buyerId,
                            IF transactionId \in DOMAIN transactions
                            THEN transactions[transactionId].status ELSE NULL,
                            NULL)
            /\ UNCHANGED <<transactions, deliveries>>
       ELSE /\ transactions' = [transactions EXCEPT ![transactionId] =
                                   [@ EXCEPT !.credentials_delivered_at = "T",
                                             !.updated_at = "T"]]
            /\ deliveries' = [deliveries EXCEPT ![transactionId] = @ + 1]
            /\ last' = Call("getTransactionCredentials", transactionId, NULL, 0,
                            buyerId, transactions[transactionId].status,
                            listings[transactions[transactionId].listing_id]
                               .encrypted_credentials)
    /\ UNCHANGED <<balance, withdrawals, disputes, listings, cart, debits, req,
                   calls, net, balance0, now, reviews, cartSeq>>

\* the vault: a listing seller 2 created with some credentials, sold to buyer
\* 1 in a transaction of any status, delivered or not, and a listing seller 3
\* created, now active and in the cart of buyer 1
InitVault ==
    /\ now = 0
    /\ balance = [u \in UserIds |-> 0]
    /\ balance0 = balance
    /\ withdrawals = <<>>
    /\ debits = <<>>
    /\ \E st \in TransactionStatus, delivered \in {NULL, "T"} :
          /\ transactions =
                << SeedTransaction(1, 2, 1, <<2010, 101>>, st, delivered) >>
          /\ deliveries = << IF delivered = NULL THEN 0 ELSE 1 >>
    /\ disputes = <<>>
    /\ \E c \in Credentials :
          listings = << [NewListing(2, 2010, c) EXCEPT !.status = "sold"],
                        [NewListing(3, 5000, "s3cret") EXCEPT !.status = "active"] >>
    /\ cart = { CartRow(1, 1, 2, 1) }
    /\ req = NoProcs
    /\ calls = 0
    /\ net = [u \in UserIds |-> 0]
    /\ last = NoCall
    /\ reviews = <<>>
    /\ cartSeq = 1

NextVault ==
    \/ \E b \in {1, 3}, ids \in {<<1>>, <<2>>} : checkout(b, ids)
    \/ \E t \in 1..3, b \in {1, 3} : getTransactionCredentials(t, b)

SpecVault == InitVault /\ [][NextVault]_vars

----------------------------------------------------------------------------
(* Reviews: one per completed transaction, written by its buyer *)

\* the select of the reviews of a transaction finding nothing
ExistingReview_None(transaction_id) == {}

\* existingReview: the reviews of the transaction
ExistingReview(transaction_id) ==
    {r \in DOMAIN reviews : reviews[r].transaction_id = transaction_id}

\* the tests of createReview in their order: the error thrown, or "ok"
ReviewError(transaction_id, buyer_id) ==
    IF transaction_id \notin DOMAIN transactions
    THEN "Transaction not found"
    ELSE IF transactions[transaction_id].buyer_id # buyer_id
    THEN "Transaction does not belong to this buyer"
    ELSE IF transactions[transaction_id].status # "completed"
    THEN "Cannot review incomplete transaction"
    ELSE IF ExistingReview(transaction_id) # {}
    THEN "Review already exists for this transaction"
    ELSE "ok"

\* createReview(input): one request, run to completion
createReview(transaction_id, buyer_id, rating) ==
    /\ last' = Call("createReview", transaction_id, NULL, rating, buyer_id,
                    IF transaction_id \in DOMAIN transactions
                    THEN transactions[transaction_id].status ELSE NULL,
                    ReviewError(transaction_id, buyer_id))
    /\ IF ReviewError(transaction_id, buyer_id) # "ok"
       THEN UNCHANGED reviews
       ELSE reviews' = Append(reviews,
                          [transaction_id |-> transaction_id,
                           buyer_id |-> buyer_id,
                           seller_id |-> transactions[transaction_id].seller_id,
                           rating |-> rating])
    /\ UNCHANGED <<balance, withdrawals, transactions, disputes, listings, cart,
                   debits, req, calls, deliveries, net, balance0, now, cartSeq>>

\* ratings a review may carry
Ratings == {1, 5}

\* the reviews desk: a purchase of buyer 1 from seller 2 in any status, and
\* completed purchases of buyer 3 from seller 2 and of buyer 1 from seller 3
InitReviews ==
    /\ now = 0
    /\ balance = [u \in UserIds |-> 0]
    /\ balance0 = balance
    /\ withdrawals = <<>>
    /\ debits = <<>>
    /\ \E st \in TransactionStatus :
          transactions = << SeedTransaction(1, 2, 1, <<2010, 101>>, st, "T"),
                            SeedTransaction(3, 2, 2, <<5000, 250>>, "completed", "T"),
                            SeedTransaction(1, 3, 3, <<3000, 150>>, "completed", "T") >>
    /\ disputes = <<>>
    /\ listings = << SeedListing(2, 2010, "sold"), SeedListing(2, 5000, "sold"),
                     SeedListing(3, 3000, "sold") >>
    /\ cart = {}
    /\ req = NoProcs
    /\ calls = 0
    /\ deliveries = [t \in DOMAIN transactions |-> 0]
    /\ net = [u \in UserIds |-> 0]
    /\ last = NoCall
    /\ reviews = <<>>
    /\ cartSeq = 0

NextReviews ==
    \E t \in 1..4, b \in {1, 3}, rating \in Ratings : createReview(t, b, rating)

SpecReviews == InitReviews /\ [][NextReviews]_vars

\* the market from an empty store: users 1 (a verified buyer), 2 (a verified
\* seller) and 3 (not verified)
InitMarket ==
    /\ now = 0
    /\ balance = [u \in UserIds |-> 0]
    /\ balance0 = balance
    /\ withdrawals = <<>>
    /\ debits = <<>>
    /\ transactions = <<>>
    /\ disputes = <<>>
    /\ listings = <<>>
    /\ cart = {}
    /\ req = NoProcs
    /\ calls = 0
    /\ deliveries = <<>>
    /\ net = [u \in UserIds |-> 0]
    /\ last = NoCall
    /\ reviews = <<>>
    /\ cartSeq = 0

\* ids of listingsTable rows; the last one has no row
ListingIds == 1..(MaxListings + 1)

NextMarket ==
    \/ \E s \in {2, 3, NoUser} : createListing(s, 2010, "pw")
    \/ \E l \in ListingIds, st \in ModerationStatus : adminModerateListing(l, st)
    \/ \E l \in ListingIds, st \in ListingStatus \cup {Undefined} :
          updateListing(l, Omitted, st)
    \/ \E b \in {1, NoUser}, l \in ListingIds : addToCart(b, l, 1)
    \/ \E ids \in {<<1>>, <<2>>, <<1, 2>>} : checkout(1, ids)

SpecMarket == InitMarket /\ [][NextMarket]_vars

\* the carts: seller 2 offers two active listings, seller 3 one that is
\* removed; the carts are empty
InitCart ==
    /\ now = 0
    /\ balance = [u \in UserIds |-> 0]
    /\ balance0 = balance
    /\ withdrawals = <<>>
    /\ debits = <<>>
    /\ transactions = <<>>
    /\ disputes = <<>>
    /\ listings = << SeedListing(2, 2010, "active"), SeedListing(2, 5000, "active"),
                     SeedListing(3, 3000, "removed") >>
    /\ cart = {}
    /\ req = NoProcs
    /\ calls = 0
    /\ deliveries = <<>>
    /\ net = [u \in UserIds |-> 0]
    /\ last = NoCall
    /\ reviews = <<>>
    /\ cartSeq = 0

NextCart ==
    \/ \E b \in {1, 3}, l \in 1..4, q \in 1..MaxQuantity : addToCart(b, l, q)
    \/ \E id \in 1..MaxCartRows, b \in {1, 3} : removeFromCart(id, b)
    \/ \E b \in {1, 3}, ids \in {<<1>>, <<2>>, <<1, 2>>} : checkout(b, ids)

SpecCart == InitCart /\ [][NextCart]_vars

\* the whole marketplace, one request at a time: either an empty store, or a
\* store in which seller 2 has sold a listing to buyer 1 in a completed
\* transaction whose credentials are not yet delivered
InitAll ==
    /\ now = 0
    /\ balance = [u \in UserIds |-> 0]
    /\ balance0 = balance
    /\ withdrawals = <<>>
    /\ debits = <<>>
    /\ disputes = <<>>
    /\ \/ /\ listings = <<>>
          /\ transactions = <<>>
       \/ /\ listings = << [NewListing(2, 5000, "pw") EXCEPT !.status = "sold"] >>
          /\ transactions = << SeedTransaction(1, 2, 1, <<5000, 250>>, "completed",
                                               NULL) >>
    /\ cart = {}
    /\ req = NoProcs
    /\ calls = 0
    /\ deliveries = [t \in DOMAIN transactions |-> 0]
    /\ net = [u \in UserIds |-> 0]
    /\ last = NoCall
    /\ reviews = <<>>
    /\ cartSeq = 0

NextAll ==
    \/ createListing(2, 5000, "pw")
    \/ updateListing(1, Given(5000), Undefined)
    \/ adminModerateListing(1, "active")
    \/ addToCart(1, 1, 1)
    \/ removeFromCart(1, 1)
    \/ \E ids \in {<<1>>, <<2>>} : checkout(1, ids)
    \/ getTransactionCredentials(1, 1)
    \/ createDispute(1, 1)
    \/ createReview(1, 1, 5)
    \/ createWithdrawalRequest(2, 2000)
    \/ adminProcessWithdrawal(1, "approved", "note")
    \/ adminResolveDispute(1, "buyer_favor", "note", Omitted)

SpecAll == InitAll /\ [][NextAll]_vars

----------------------------------------------------------------------------
(* Listing reads *)

\* the stored credential blobs
Blobs == {Base64(c) : c \in Credentials}

\* a selected listing row: its id, the columns of the model, and the value
\* the result carries as encrypted_credentials
ListingResult(listingsTable, id, encrypted_credentials) ==
    [id |-> id,
     seller_id |-> listingsTable[id].seller_id,
     price |-> listingsTable[id].price,
     status |-> listingsTable[id].status,
     encrypted_credentials |-> encrypted_credentials]

RECURSIVE Newest(_)
\* ids by created_at descending: the newest row has the highest id
Newest(ids) ==
    IF ids = {} THEN <<>>
    ELSE LET id == CHOOSE i \in ids : \A j \in ids : j <= i
         IN <<id>> \o Newest(ids \ {id})

\* the rows getListings returns without filters: db.select() of the active
\* listings, every column as stored, newest first
ActiveListings(listingsTable) ==
    LET ids == Newest({l \in DOMAIN listingsTable :
                          listingsTable[l].status = "active"})
    IN [k \in DOMAIN ids |->
          ListingResult(listingsTable, ids[k],
                        listingsTable[ids[k]].encrypted_credentials)]

\* the rows found by getListingById (none: the handler returns null); the
\* credential column is not selected and the result carries ''
ListingById(listingsTable, id) ==
    {ListingResult(listingsTable, l, "") :
        l \in {l \in DOMAIN listingsTable :
                  /\ l = id
                  /\ listingsTable[l].seller_id \in UserIds
                  /\ listingsTable[l].status = "active"}}

\* the rows getSellerListings returns (no ORDER BY: the rows as a set)
SellerListings(listingsTable, sellerId) ==
    {ListingResult(listingsTable, l, "") :
        l \in {l \in DOMAIN listingsTable : listingsTable[l].seller_id = sellerId}}

\* the rows adminGetAllListings returns (no ORDER BY: the rows as a set); the
\* credential column is selected and overwritten
AllListings(listingsTable) ==
    {ListingResult(listingsTable, l, "[REDACTED]") :
        l \in {l \in DOMAIN listingsTable : listingsTable[l].seller_id \in UserIds}}

\* the record of a read and of what it returned
ReadCall(op, id, returned) ==
    [op |-> op, id |-> id, arg |-> NULL, amount |-> 0, user |-> 0, was |-> NULL,
     result |-> "ok", returned |-> returned]

getListings ==
    /\ last' = ReadCall("getListings", 0, ActiveListings(listings))
    /\ UNCHANGED <<balance, withdrawals, transactions, disputes, listings, cart,
                   debits, ctl>>

getListingById(id) ==
    /\ last' = ReadCall("getListingById", id, ListingById(listings, id))
    /\ UNCHANGED <<balance, withdrawals, transactions, disputes, listings, cart,
                   debits, ctl>>

getSellerListings(sellerId) ==
    /\ last' = ReadCall("getSellerListings", sellerId,
                        SellerListings(listings, sellerId))
    /\ UNCHANGED <<balance, withdrawals, transactions, disputes, listings, cart,
                   debits, ctl>>

adminGetAllListings ==
    /\ last' = ReadCall("adminGetAllListings", 0, AllListings(listings))
    /\ UNCHANGED <<balance, withdrawals, transactions, disputes, listings, cart,
                   debits, ctl>>

\* browsing: a listing of seller 2 and one of seller 3, in any status and
\* with any stored blob, are moderated and read
InitBrowse ==
    /\ now = 0
    /\ balance = [u \in UserIds |-> 0]
    /\ balance0 = balance
    /\ withdrawals = <<>>
    /\ debits = <<>>
    /\ transactions = <<>>
    /\ disputes = <<>>
    /\ \E s1, s2 \in ListingStatus, c1, c2 \in Credentials :
          listings = << [NewListing(2, 5000, c1) EXCEPT !.status = s1],
                        [NewListing(3, 3000, c2) EXCEPT !.status = s2] >>
    /\ cart = {}
    /\ req = NoProcs
    /\ calls = 0
    /\ deliveries = <<>>
    /\ net = [u \in UserIds |-> 0]
    /\ last = NoCall
    /\ reviews = <<>>
    /\ cartSeq = 0

NextBrowse ==
    \/ \E l \in 1..2, st \in ModerationStatus : adminModerateListing(l, st)
    \/ getListings
    \/ \E id \in 1..3 : getListingById(id)
    \/ \E s \in UserIds : getSellerListings(s)
    \/ adminGetAllListings

SpecBrowse == InitBrowse /\ [][NextBrowse]_vars

\* the life of a purchase: buyer 1 has carted a listing of seller 2 and one of
\* seller 3; the purchases may be disputed and the disputes resolved
InitLife ==
    /\ now = 0
    /\ balance = [u \in UserIds |-> 0]
    /\ balance0 = balance
    /\ withdrawals = <<>>
    /\ debits = <<>>
    /\ transactions = <<>>
    /\ disputes = <<>>
    /\ listings = << SeedListing(2, 5000, "active"), SeedListing(3, 3000, "active") >>
    /\ cart = { CartRow(1, 1, 1, 1), CartRow(2, 1, 2, 1) }
    /\ req = NoProcs
    /\ calls = 0
    /\ deliveries = <<>>
    /\ net = [u \in UserIds |-> 0]
    /\ last = NoCall
    /\ reviews = <<>>
    /\ cartSeq = 2

NextLife ==
    \/ \E ids \in {<<1>>, <<2>>, <<1, 2>>} : checkout(1, ids)
    \/ \E t \in 1..2 : createDispute(t, 1)
    \/ \E d \in 1..2, r \in Resolution, ra \in {Omitted, Given(1000)} :
          adminResolveDispute(d, r, "note", ra)
    \/ \E t \in 1..2 : createReview(t, 1, 5)
    \/ \E t \in 1..2 : getTransactionCredentials(t, 1)

SpecLife == InitLife /\ [][NextLife]_vars

\* the ledger under concurrency: a disputed purchase of buyer 1 from seller 2,
\* a pending withdrawal request of seller 2, and buyer 1's cart with one
\* listing of each seller
InitLedger ==
    /\ now = 0
    /\ balance = [u \in UserIds |-> IF u = 2 THEN 10000 ELSE 0]
    /\ balance0 = balance
    /\ withdrawals = << [seller_id |-> 2, amount |-> 10000, status |-> "pending",
                         admin_notes |-> NULL, processed_at |-> NULL] >>
    /\ debits = << 0 >>
    /\ transactions = << SeedTransaction(1, 2, 1, <<10000, 1000>>, "disputed", NULL) >>
    /\ disputes = << SeedDispute(1, 1, 2, "open") >>
    /\ listings = << SeedListing(2, 10000, "sold"), SeedListing(2, 2010, "active"),
                     SeedListing(3, 5000, "active") >>
    /\ cart = { [id |-> 1, buyer_id |-> 1, listing_id |-> 2, quantity |-> 1],
                [id |-> 2, buyer_id |-> 1, listing_id |-> 3, quantity |-> 1] }
    /\ req = NoProcs
    /\ calls = 0
    /\ deliveries = [t \in DOMAIN transactions |-> 0]
    /\ net = [u \in UserIds |-> 0]
    /\ last = NoCall
    /\ reviews = <<>>
    /\ cartSeq = 2

NextLedger ==
    \/ \E p \in Procs, b \in {1, NoUser}, ids \in {<<1>>, <<1, 2>>} : co_buyer(p, b, ids)
    \/ \E p \in Procs : co_all(p)
    \/ \E p \in Procs : co_items(p)
    \/ \E p \in Procs : co_insert(p)
    \/ \E p \in Procs : co_listing(p)
    \/ \E p \in Procs : co_seller_select(p)
    \/ \E p \in Procs : co_seller_update(p)
    \/ \E p \in Procs : co_delete(p)
    \/ \E p \in Procs, r \in Resolution, ra \in {Omitted, Given(6000)} :
          ard_select(p, 1, r, "note", ra)
    \/ \E p \in Procs : ard_dispute(p)
    \/ \E p \in Procs : ard_transaction(p)
    \/ \E p \in Procs : ard_buyer_select(p)
    \/ \E p \in Procs : ard_buyer_update(p)
    \/ \E p \in Procs : ard_seller_select(p)
    \/ \E p \in Procs : ard_seller_update(p)
    \/ \E p \in Procs : ard_commit(p)
    \/ \E p \in Procs, s \in {2, NoUser}, a \in WithdrawalAmounts : cwr_select(p, s, a)
    \/ \E p \in Procs : cwr_insert(p)
    \/ \E p \in Procs, id \in 1..MaxWithdrawals, st \in ProcessStatus :
          apw_select(p, id, st, Undefined)
    \/ \E p \in Procs : apw_seller(p)
    \/ \E p \in Procs : apw_debit(p)
    \/ \E p \in Procs : apw_update(p)

SpecLedger == InitLedger /\ [][NextLedger]_vars

\* the till: buyer 1 has carted one listing of seller 2 and one of seller 3;
\* any statement of a checkout may be rejected by the store
InitTill ==
    /\ now = 0
    /\ balance = [u \in UserIds |-> IF u = 2 THEN 10000 ELSE 0]
    /\ balance0 = balance
    /\ withdrawals = <<>>
    /\ debits = <<>>
    /\ transactions = <<>>
    /\ disputes = <<>>
    /\ listings = << SeedListing(2, 2010, "active"), SeedListing(3, 5000, "active") >>
    /\ cart = { CartRow(1, 1, 1, 1), CartRow(2, 1, 2, 1) }
    /\ req = NoProcs
    /\ calls = 0
    /\ deliveries = <<>>
    /\ net = [u \in UserIds |-> 0]
    /\ last = NoCall
    /\ reviews = <<>>
    /\ cartSeq = 2

NextTill ==
    \/ \E p \in Procs, b \in {1, NoUser}, ids \in {<<1>>, <<1, 2>>} : co_buyer(p, b, ids)
    \/ \E p \in Procs : co_all(p)
    \/ \E p \in Procs : co_items(p)
    \/ \E p \in Procs : co_insert(p)
    \/ \E p \in Procs : co_listing(p)
    \/ \E p \in Procs : co_seller_select(p)
    \/ \E p \in Procs : co_seller_update(p)
    \/ \E p \in Procs : co_delete(p)
    \/ \E p \in Procs : co_fail(p)

SpecTill == InitTill /\ [][NextTill]_vars

\* the rush: buyers 1 and 3 have both carted the one active listing of
\* seller 2, and their checkouts (buyer 1's on p1, buyer 3's on p2) interleave
InitRush ==
    /\ now = 0
    /\ balance = [u \in UserIds |-> 0]
    /\ balance0 = balance
    /\ withdrawals = <<>>
    /\ debits = <<>>
    /\ transactions = <<>>
    /\ disputes = <<>>
    /\ listings = << SeedListing(2, 5000, "active") >>
    /\ cart = { CartRow(1, 1, 1, 1), CartRow(2, 3, 1, 1) }
    /\ req = NoProcs
    /\ calls = 0
    /\ deliveries = <<>>
    /\ net = [u \in UserIds |-> 0]
    /\ last = NoCall
    /\ reviews = <<>>
    /\ cartSeq = 2

NextRush ==
    \/ \E ids \in {<<1>>, <<2>>} : co_buyer("p1", 1, ids) \/ co_buyer("p2", 3, ids)
    \/ \E p \in Procs : co_all(p)
    \/ \E p \in Procs : co_items(p)
    \/ \E p \in Procs : co_insert(p)
    \/ \E p \in Procs : co_listing(p)
    \/ \E p \in Procs : co_seller_select(p)
    \/ \E p \in Procs : co_seller_update(p)
    \/ \E p \in Procs : co_delete(p)

SpecRush == InitRush /\ [][NextRush]_vars

\* the dispute desk under concurrency: the disputed purchase of buyer 1 from
\* seller 2 with its open dispute, and a completed purchase of buyer 1 from
\* seller 3 without one
InitDesk ==
    /\ now = 0
    /\ balance = [u \in UserIds |-> IF u = 1 THEN 5000 ELSE 0]
    /\ balance0 = balance
    /\ withdrawals = <<>>
    /\ debits = <<>>
    /\ transactions = << SeedTransaction(1, 2, 1, <<10000, 1000>>, "disputed", NULL),
                         SeedTransaction(1, 3, 2, <<5000, 250>>, "completed", "T") >>
    /\ disputes = << SeedDispute(1, 1, 2, "open") >>
    /\ listings = << SeedListing(2, 10000, "sold"), SeedListing(3, 5000, "sold") >>
    /\ cart = {}
    /\ req = NoProcs
    /\ calls = 0
    /\ deliveries = [t \in DOMAIN transactions |-> 0]
    /\ net = [u \in UserIds |-> 0]
    /\ last = NoCall
    /\ reviews = <<>>
    /\ cartSeq = 0

NextDesk ==
    \/ \E p \in Procs, r \in Resolution, ra \in {Omitted, Given(6000)} :
          ard_select(p, 1, r, "note", ra)
    \/ \E p \in Procs : ard_dispute(p)
    \/ \E p \in Procs : ard_transaction(p)
    \/ \E p \in Procs : ard_buyer_select(p)
    \/ \E p \in Procs : ard_buyer_update(p)
    \/ \E p \in Procs : ard_seller_select(p)
    \/ \E p \in Procs : ard_seller_update(p)
    \/ \E p \in Procs : ard_commit(p)
    \/ \E p \in Procs : ard_abort(p)
    \/ \E p \in Procs, t \in 1..2, b \in {1, 3} : cd_select(p, t, b)
    \/ \E p \in Procs : cd_exists(p)
    \/ \E p \in Procs : cd_insert(p)
    \/ Tick

SpecDesk == InitDesk /\ [][NextDesk]_vars

\* credential delivery under concurrency: two purchases of buyer 1
InitDeliver ==
    /\ now = 0
    /\ balance = [u \in UserIds |-> 0]
    /\ balance0 = balance
    /\ withdrawals = <<>>
    /\ debits = <<>>
    /\ \E st \in {"completed", "disputed"}, d \in {NULL, "T"} :
          transactions = << SeedTransaction(1, 2, 1, <<10000, 500>>, "completed", NULL),
                            SeedTransaction(1, 3, 2, <<5000, 250>>, st, d) >>
    /\ disputes = <<>>
    /\ listings = << SeedListing(2, 10000, "sold"), SeedListing(3, 5000, "sold") >>
    /\ cart = {}
    /\ req = NoProcs
    /\ calls = 0
    /\ deliveries = [t \in DOMAIN transactions |-> 0]
    /\ net = [u \in UserIds |-> 0]
    /\ last = NoCall
    /\ reviews = <<>>
    /\ cartSeq = 0

NextDeliver ==
    \/ \E p \in Procs, t \in 1..3, b \in {1, 3} : gtc_select(p, t, b)
    \/ \E p \in Procs : gtc_update(p)

SpecDeliver == InitDeliver /\ [][NextDeliver]_vars

\* C1: of the getTransactionCredentials requests for one transaction, at most
\* one returns the credentials, however the requests interleave.
C1_AtMostOnceDelivery ==
    \A t \in DOMAIN transactions : deliveries[t] <= 1

----------------------------------------------------------------------------
(* Properties of the concurrent ledger (SpecLedger) *)

Quiescent == \A p \in Procs : IsIdle(p)

\* C2: no balance is ever negative, however checkout, adminResolveDispute,
\* createWithdrawalRequest and adminProcessWithdrawal requests interleave.
C2_BalancesNonNegative ==
    \A u \in UserIds : balance[u] >= 0

\* two requests had read the same balance of seller 2 and one write was lost,
\* leaving the seller with less than the writes add up to
C2_Witness ==
    /\ Quiescent
    /\ balance[2] # balance0[2] + net[2]
    /\ balance[2] = 0
    /\ debits[1] = 1

\* C4: when a resolution and approvals of different requests that touch the
\* same seller have run concurrently and all have returned, the seller's
\* balance is the initial balance plus the credit minus the debits written
\* (no checkout has run, and no request was debited twice).
C4_NoLostUpdates ==
    (/\ Quiescent
     /\ Len(transactions) = 1
     /\ \A id \in DOMAIN withdrawals : debits[id] <= 1)
        => \A u \in UserIds : balance[u] = balance0[u] + net[u]

----------------------------------------------------------------------------
(* Properties of the withdrawal engine (SpecW) *)

IsProcess(c) == c.op = "adminProcessWithdrawal"
IsCreate(c) == c.op = "createWithdrawalRequest"
IsResolve(c) == c.op = "adminResolveDispute"

RECURSIVE DebitedTotal(_, _)
\* what the requests 1..n of seller s have taken from the balance
DebitedTotal(s, n) ==
    IF n = 0 THEN 0
    ELSE DebitedTotal(s, n - 1)
         + (IF withdrawals[n].seller_id = s
            THEN withdrawals[n].amount * debits[n] ELSE 0)

\* C5: approving a request that is already approved debits nothing, and no
\* sequence of calls takes the amount of one request from the balance more
\* than once.
C5_IdempotentApproval ==
    /\ [](\A id \in DOMAIN withdrawals : debits[id] <= 1)
    /\ [](\A s \in UserIds :
             balance[s] = balance0[s] - DebitedTotal(s, Len(withdrawals)))
    /\ [][(IsProcess(last') /\ last'.arg = "approved" /\ last'.was = "approved")
             => balance' = balance]_vars

\* a request approved a second time, after the approval that debited it
C5_Witness ==
    /\ IsProcess(last) /\ last.arg = "approved" /\ last.was = "approved"
    /\ last.result = "ok"
    /\ debits[last.id] = 1
    /\ balance[last.user] = balance0[last.user] - last.amount

\* C6: a request that is approved or completed has been debited exactly once,
\* a pending one not at all.
C6_ApprovedOrCompletedIsDebited ==
    \A id \in DOMAIN withdrawals :
       /\ withdrawals[id].status \in {"approved", "completed"} => debits[id] = 1
       /\ withdrawals[id].status = "pending" => debits[id] = 0

WithdrawalTransitions ==
    {<<"pending", "approved">>, <<"approved", "completed">>,
     <<"pending", "rejected">>, <<"approved", "rejected">>}

\* C7: the status of a request changes only along pending -> approved,
\* approved -> completed, pending -> rejected and approved -> rejected.
C7_WithdrawalStateMachine ==
    [][\A id \in DOMAIN withdrawals :
          \/ withdrawals'[id].status = withdrawals[id].status
          \/ <<withdrawals[id].status, withdrawals'[id].status>>
                \in WithdrawalTransitions]_vars

\* C9: a call with new status rejected or completed changes no balance, and
\* with completed it stamps processed_at.
C9_RejectCompleteKeepBalances ==
    [][(IsProcess(last') /\ last'.arg \in {"rejected", "completed"})
          => /\ balance' = balance
             /\ (last'.arg = "completed" /\ last'.result = "ok")
                   => withdrawals'[last'.id].processed_at # NULL]_vars

\* a pending request that the seller could pay was marked completed
C9_Witness ==
    /\ IsProcess(last) /\ last.arg = "completed" /\ last.was = "pending"
    /\ last.result = "ok"
    /\ withdrawals[last.id].processed_at # NULL
    /\ balance[last.user] >= last.amount

\* C10: a request is created exactly when the seller exists and the amount is
\* at most the balance; it is pending and the balance is untouched; otherwise
\* the call fails with its error and no request is created.
C10_CreateWithdrawalRequest ==
    [][IsCreate(last') =>
         LET s == last'.user
             a == last'.amount
             n == Len(withdrawals)
         IN /\ last'.result = "ok" <=> (s \in UserIds /\ a <= balance[s])
            /\ balance' = balance
            /\ last'.result = "ok" =>
                  /\ Len(withdrawals') = n + 1
                  /\ SubSeq(withdrawals', 1, n) = withdrawals
                  /\ withdrawals'[n + 1].status = "pending"
                  /\ withdrawals'[n + 1].seller_id = s
                  /\ withdrawals'[n + 1].amount = a
            /\ last'.result # "ok" =>
                  /\ withdrawals' = withdrawals
                  /\ last'.result = IF s \in UserIds THEN "Insufficient balance"
                                    ELSE "Seller not found"]_vars

\* a request for the whole balance was accepted
C10_Witness ==
    /\ IsCreate(last) /\ last.result = "ok"
    /\ last.amount = balance[last.user]
    /\ withdrawals[last.id].status = "pending"

----------------------------------------------------------------------------
(* Properties of the ledger (Spec) *)

C8_ChecksBeforeMutation ==
    [][(last'.result \in {"Insufficient seller balance for withdrawal",
                          "Invalid refund amount for partial refund"})
          => UNCHANGED <<balance, withdrawals, disputes, transactions>>]_vars

\* an approval was refused while the dispute was still unresolved
C8_Witness ==
    /\ IsProcess(last)
    /\ last.result = "Insufficient seller balance for withdrawal"
    /\ withdrawals[last.id].status = "pending"
    /\ disputes[1].status \in {"open", "in_review"}

----------------------------------------------------------------------------
(* Properties of the dispute desk (SpecD) *)

\* a step that serves a request: the clock stands still
Served == now' = now

\* C11: adminResolveDispute on a dispute that is resolved or closed fails with
\* "Dispute is already resolved" for every resolution and refund amount and
\* changes no balance, no dispute and no transaction; no step at all changes
\* a resolved or closed dispute.
C11_ResolvedAndClosedAreTerminal ==
    /\ [][(/\ Served /\ IsResolve(last')
           /\ last'.id \in DOMAIN disputes
           /\ disputes[last'.id].status \in {"resolved", "closed"})
            => /\ last'.result = "Dispute is already resolved"
               /\ UNCHANGED <<balance, disputes, transactions>>]_vars
    /\ [][\A d \in DOMAIN disputes :
             disputes[d].status \in {"resolved", "closed"}
                => disputes'[d] = disputes[d]]_vars

\* a partial refund was asked on the closed dispute and refused
C11_Witness ==
    /\ IsResolve(last) /\ last.was = "closed" /\ last.arg = "partial_refund"
    /\ last.result = "Dispute is already resolved"
    /\ disputes[last.id].status = "closed"
    /\ balance = balance0

IsCreateDispute(c) == c.op = "createDispute"

\* C14: createDispute for a transaction of the requesting buyer that has no
\* dispute succeeds, appending one open dispute, when less than 24 hours lie
\* between the stored created_at and the clock at the call, and fails with
\* "Dispute window has expired", creating nothing, when more than 24 hours do.
C14_DisputeWindow ==
    [][(/\ Served /\ IsCreateDispute(last')
        /\ last'.id \in DOMAIN transactions
        /\ transactions[last'.id].buyer_id = last'.user
        /\ ExistingDisputes(last'.id) = {})
         => LET elapsed == now - transactions[last'.id].created_at
                window == DisputeWindowHours * MinutesPerHour
            IN /\ elapsed < window
                    => /\ last'.result = "ok"
                       /\ Len(disputes') = Len(disputes) + 1
                       /\ disputes'[Len(disputes')].transaction_id = last'.id
                       /\ disputes'[Len(disputes')].status = "open"
               /\ elapsed > window
                    => /\ last'.result
                            = "Dispute window has expired (24 hours after transaction)"
                       /\ disputes' = disputes]_vars

\* the purchase of buyer 3 was disputed 23h59m after it was made, and the
\* dispute of buyer 1's purchase was refused 24h01m after it was made
C14_Witness ==
    /\ IsCreateDispute(last) /\ last.id = 2
    /\ last.result = "Dispute window has expired (24 hours after transaction)"
    /\ now - transactions[2].created_at = 1441
    /\ ExistingDisputes(2) = {}
    /\ \E d \in ExistingDisputes(3) :
          disputes[d].created_at - transactions[3].created_at = 1439

----------------------------------------------------------------------------
(* Properties of the dispute desk under concurrency (SpecDesk) *)

\* C13: the effects of one adminResolveDispute reach the store in one step,
\* all together: the dispute is resolved exactly when its transaction has left
\* disputed, no balance differs from the start while the dispute is
\* unresolved, and a step that changes a balance, a transaction or a dispute
\* row is the commit of one resolution and applies its status changes and
\* both of its credits; a resolution that fails inside changes nothing.
C13_AtomicResolution ==
    /\ [](disputes[1].status = "resolved" <=> transactions[1].status # "disputed")
    /\ [](disputes[1].status # "resolved" => balance = balance0)
    /\ [][(\/ balance' # balance
           \/ transactions' # transactions
           \/ \E d \in DOMAIN disputes : disputes'[d] # disputes[d])
            => \E p \in Procs :
                  /\ req[p].pc = "ard_commit" /\ req'[p] = Idle
                  /\ last'.result = "ok"
                  /\ disputes'[req[p].id].status = "resolved"
                  /\ transactions'[req[p].tid].status
                        = ResolvedTransactionStatus(req[p].arg)
                  /\ balance' = Credit(Credit(balance, req[p].buyer,
                                              req[p].buyerRefund),
                                       req[p].seller, req[p].sellerAmount)]_vars

\* a resolution failed after it had written the buyer's credit inside its
\* database transaction: the dispute is open and no balance has moved
C13_Witness ==
    /\ IsResolve(last) /\ last.result = "error" /\ last.amount > 0
    /\ disputes[1].status = "open"
    /\ transactions[1].status = "disputed"
    /\ balance = balance0

\* C15: no transaction has more than one dispute row, also when createDispute
\* requests for the same transaction interleave.
C15_OneDisputePerTransaction ==
    \A t \in DOMAIN transactions : Cardinality(ExistingDisputes(t)) <= 1

----------------------------------------------------------------------------
(* Properties of checkout (SpecShop) *)

IsCheckout(c) == c.op = "checkout"

\* the cart rows the ids of an array resolve to
Resolved(ids) == {c \in cart : \E k \in DOMAIN ids : c.id = ids[k]}

\* the first of the five preconditions that does not hold, by its error
FirstFailure(b, ids) ==
    IF b \notin UserIds
    THEN "Buyer not found"
    ELSE IF \E k \in DOMAIN ids : \A c \in cart : c.id # ids[k]
    THEN "No valid cart items found for checkout"
    ELSE IF \E c \in Resolved(ids) : c.buyer_id # b
    THEN "Some cart items are invalid or do not belong to the buyer"
    ELSE IF \E c \in Resolved(ids) : listings[c.listing_id].status # "active"
    THEN "Listings are no longer available"
    ELSE IF \E c \in Resolved(ids) : listings[c.listing_id].seller_id = b
    THEN "Cannot purchase your own listings"
    ELSE "ok"

\* C16: checkout fails with the error of the first precondition that does not
\* hold, in the order buyer exists, every id resolves to a cart row, every row
\* belongs to the buyer, every listing is active, no listing is the buyer's
\* own, and succeeds when all five hold, for every array of ids.
C16_PreconditionOrder ==
    [][IsCheckout(last')
         => last'.result = FirstFailure(last'.user, last'.cart_items)]_vars

\* C17: a checkout that fails creates no transaction and leaves listings,
\* balances and cart rows as they were.
C17_FailedCheckoutChangesNothing ==
    [][(IsCheckout(last') /\ last'.result # "ok")
         => UNCHANGED <<transactions, listings, balance, cart>>]_vars

\* buyer 1 asked for a good row together with buyer 3's row after an earlier
\* purchase: refused, and the good row is still in the cart
C17_Witness ==
    /\ IsCheckout(last) /\ last.user = 1 /\ last.cart_items = <<3, 5>>
    /\ last.result = "Some cart items are invalid or do not belong to the buyer"
    /\ Len(transactions) > 0
    /\ \E c \in cart : c.id = 3
    /\ listings[3].status = "active"

RECURSIVE Worth(_)
\* price times quantity, summed over a set of cart rows
Worth(rows) ==
    IF rows = {} THEN 0
    ELSE LET c == CHOOSE c \in rows : TRUE
         IN listings[c.listing_id].price * c.quantity + Worth(rows \ {c})

SellerOf(c) == listings[c.listing_id].seller_id

\* what a successful checkout returns: one transaction per seller of the rows
\* consumed, with the buyer, a seller other than the buyer, status completed,
\* the worth of the seller's rows as amount, the 5% fee (to the fraction of a
\* cent, or to the nearest whole cent) and the escrow date 24 hours ahead
CheckoutReturns(exactFee) ==
    (IsCheckout(last') /\ last'.result = "ok") =>
       LET b == last'.user
           rows == Resolved(last'.cart_items)
           sellers == {SellerOf(c) : c \in rows}
           returned == last'.returned
       IN /\ Len(returned) = Cardinality(sellers)
          /\ {returned[k].seller_id : k \in DOMAIN returned} = sellers
          /\ transactions' = transactions \o returned
          /\ \A k \in DOMAIN returned :
                LET t == returned[k]
                IN /\ t.buyer_id = b
                   /\ t.seller_id # b
                   /\ t.status = "completed"
                   /\ t.amount = Worth({c \in rows : SellerOf(c) = t.seller_id})
                   /\ IF exactFee
                      THEN t.platform_fee * 100 = t.amount * PlatformFeeRate
                      ELSE t.platform_fee * 100 - t.amount * PlatformFeeRate
                              \in -50..50
                   /\ t.escrow_release_date = now + EscrowHours * MinutesPerHour

\* C18 as stated: a successful checkout returns one transaction per distinct
\* seller, each with platform_fee equal to 5% of its amount.
C18_FeeIsFivePercent == [][CheckoutReturns(TRUE)]_vars

\* C18: a successful checkout returns one transaction per distinct seller of
\* the validated cart items, each with buyer = the caller, a seller other
\* than the buyer, status completed, amount = the sum of price x quantity
\* over that seller's items, platform_fee = 5% of the amount rounded to a
\* whole cent (within half a cent of 5%), and escrow_release_date = checkout
\* time + 24 hours.
C18_OneTransactionPerSeller == [][CheckoutReturns(FALSE)]_vars

\* three rows of two sellers were bought at minute 60: two transactions, of
\* 120.10 (fee 6.01) for seller 2 and of 30.00 (fee 1.50) for seller 3
C18_Witness ==
    /\ IsCheckout(last) /\ last.result = "ok" /\ last.cart_items = <<1, 2, 3>>
    /\ Len(last.returned) = 2
    /\ last.returned[1].seller_id = 2 /\ last.returned[1].amount = 12010
    /\ last.returned[1].platform_fee = 601
    /\ last.returned[2].seller_id = 3 /\ last.returned[2].amount = 3000
    /\ last.returned[2].platform_fee = 150
    /\ last.returned[2].escrow_release_date = 1500

\* C19: after a successful checkout every listing of a consumed cart row is
\* sold, also when one seller has several rows in the checkout.
C19_ConsumedListingsAreSold ==
    [][(IsCheckout(last') /\ last'.result = "ok")
         => \A c \in Resolved(last'.cart_items) :
               listings'[c.listing_id].status = "sold"]_vars

\* C20: a successful checkout raises the balance of each seller involved by
\* the amount of that seller's transaction minus its platform fee and changes
\* no other balance.
C20_SellerCredit ==
    [][(IsCheckout(last') /\ last'.result = "ok")
         => LET returned == last'.returned
                sellers == {returned[k].seller_id : k \in DOMAIN returned}
            IN /\ \A k \in DOMAIN returned :
                     balance'[returned[k].seller_id]
                        = balance[returned[k].seller_id]
                          + returned[k].amount - returned[k].platform_fee
               /\ \A u \in UserIds \ sellers : balance'[u] = balance[u]]_vars

\* C21: a successful checkout deletes exactly the cart rows whose ids were
\* supplied, all of them rows of the buyer, and leaves every other cart row,
\* of this buyer or of another, as it was.
C21_CheckoutDeletesSuppliedRows ==
    [][(IsCheckout(last') /\ last'.result = "ok")
         => /\ \A c \in Resolved(last'.cart_items) : c.buyer_id = last'.user
            /\ cart' = cart \ Resolved(last'.cart_items)
            /\ \A k \in DOMAIN last'.cart_items :
                  \A c \in cart' : c.id # last'.cart_items[k]]_vars

\* buyer 1 bought row 3 alone: rows 1, 2 and 4 of buyer 1 and row 5 of buyer 3
\* are still in the cart, with their quantities
C21_Witness ==
    /\ IsCheckout(last) /\ last.result = "ok" /\ last.cart_items = <<3>>
    /\ cart = { CartRow(1, 1, 1, 1), CartRow(2, 1, 2, 2), CartRow(4, 1, 4, 1),
                CartRow(5, 3, 1, 1) }

\* the effects of a seller's group that are in the store: the transaction row
\* of the buyer with the seller, a listing of the group sold, the seller credited
GroupEffects(buyer, items, seller, rows, offers, credit) ==
    (IF \E k \in DOMAIN rows :
           rows[k].buyer_id = buyer /\ rows[k].seller_id = seller
     THEN {"transaction"} ELSE {})
    \cup (IF \E i \in items :
               i.seller_id = seller /\ offers[i.listing_id].status = "sold"
          THEN {"listing"} ELSE {})
    \cup (IF credit[seller] > 0 THEN {"balance"} ELSE {})

\* C22: when a store operation fails inside checkout, then for every seller
\* group either all of its effects (transaction row inserted, listing marked
\* sold, seller credited) are applied or none is, the failure is returned to
\* the caller, and no cart row has been deleted.
C22_GroupsAreAtomic ==
    [][\A p \in Procs :
          (/\ req[p].pc \in CheckoutSteps
           /\ req'[p].pc = "idle"
           /\ IsCheckout(last') /\ last'.result = "error")
          => /\ \A seller \in {i.seller_id : i \in req[p].items} :
                   GroupEffects(req[p].user, req[p].items, seller,
                                transactions', listings', net')
                      \in {{}, {"transaction", "listing", "balance"}}
             /\ cart' = cart]_vars

----------------------------------------------------------------------------
(* Properties of the market (SpecMarket) *)

IsCreateListing(c) == c.op = "createListing"
IsModerate(c) == c.op = "adminModerateListing"
IsAddToCart(c) == c.op = "addToCart"

\* C23: sold is a terminal listing status: a listing that is sold stays sold
\* under every adminModerateListing, updateListing, addToCart and checkout
\* call.
C23_SoldIsTerminal ==
    [][\A l \in DOMAIN listings :
          listings[l].status = "sold" => listings'[l].status = "sold"]_vars

\* C24: a listing created by createListing starts under_review and is created
\* only for an existing, verified seller; afterwards its status changes only
\* by adminModerateListing (to active or removed) or by a successful checkout
\* (active to sold).
C24_ListingLifecycle ==
    [][/\ Len(listings') # Len(listings)
          => /\ IsCreateListing(last') /\ last'.result = "ok"
             /\ last'.user \in UserIds \cap Verified
             /\ listings' = Append(listings, listings'[Len(listings')])
             /\ listings'[Len(listings')].status = "under_review"
             /\ listings'[Len(listings')].seller_id = last'.user
       /\ \A l \in DOMAIN listings :
             listings'[l].status # listings[l].status
             => \/ /\ IsModerate(last')
                   /\ listings'[l].status \in ModerationStatus
                \/ /\ IsCheckout(last') /\ last'.result = "ok"
                   /\ listings[l].status = "active"
                   /\ listings'[l].status = "sold"]_vars

\* C25: only active listings are purchasable: addToCart fails with 'Listing
\* not found' or 'Listing is not active' and leaves the cart as it was for a
\* listing that does not exist or is sold, removed or under review, and every
\* transaction a checkout creates references a listing that was active when
\* the checkout validated it.
C25_OnlyActiveIsPurchasable ==
    [][/\ (IsAddToCart(last') /\ last'.id \notin DOMAIN listings)
          => last'.result = "Listing not found" /\ cart' = cart
       /\ (/\ IsAddToCart(last')
           /\ last'.id \in DOMAIN listings
           /\ listings[last'.id].status \in {"sold", "removed", "under_review"})
          => last'.result = "Listing is not active" /\ cart' = cart
       /\ (IsCheckout(last') /\ last'.result = "ok")
          => /\ transactions' = transactions \o last'.returned
             /\ \A k \in DOMAIN last'.returned :
                   listings[last'.returned[k].listing_id].status = "active"]_vars

\* a listing was bought, and the buyer's next addToCart for it was refused
C25_Witness ==
    /\ IsAddToCart(last) /\ last.user = 1 /\ last.was = "sold"
    /\ last.result = "Listing is not active"
    /\ Len(transactions) = 1
    /\ listings[transactions[1].listing_id].status = "sold"
    /\ last.id = transactions[1].listing_id

\* C30: after every addToCart, removeFromCart and checkout call there is at
\* most one cart row per (buyer, listing) pair and every cart row has a
\* quantity of at least 1; addToCart on a pair that is present adds the
\* requested quantity to the existing row and inserts no second row.
C30_CartUniqueness ==
    [][/\ \A c, e \in cart' :
             (c.buyer_id = e.buyer_id /\ c.listing_id = e.listing_id) => c = e
       /\ \A c \in cart' : c.quantity >= 1
       /\ \A e \in cart :
             (/\ IsAddToCart(last') /\ last'.result = "ok"
              /\ e.buyer_id = last'.user /\ e.listing_id = last'.id)
             => cart' = (cart \ {e})
                        \cup {[e EXCEPT !.quantity = e.quantity + last'.amount]}]_vars

\* buyer 1 added a listing that was in the cart once more: still one row, the
\* first the serial gave out, now with quantity 2
C30_Witness ==
    /\ IsAddToCart(last) /\ last.result = "ok" /\ last.user = 1 /\ last.amount = 1
    /\ cartSeq = 1
    /\ cart = {CartRow(1, 1, last.id, 2)}

----------------------------------------------------------------------------
(* Properties of the vault (SpecVault) *)

IsDeliver(c) == c.op = "getTransactionCredentials"

StoreVars == <<balance, withdrawals, transactions, disputes, listings, cart,
               reviews, cartSeq, deliveries>>

\* C26: deliverCredentials returns the no-delivery result, raises no error
\* and leaves the whole state as it was (credentials_delivered_at and
\* updated_at included) when the transaction is not found, when the caller is
\* not its buyer, when its status is pending, disputed, cancelled or refunded,
\* and when credentials_delivered_at is set; a caller who is not the buyer
\* gets this result whether or not the transaction exists.
C26_NoDeliveryChangesNothing ==
    [][IsDeliver(last')
         => LET t == last'.id
            IN (\/ t \notin DOMAIN transactions
                \/ transactions[t].buyer_id # last'.user
                \/ transactions[t].status
                      \in {"pending", "disputed", "cancelled", "refunded"}
                \/ transactions[t].credentials_delivered_at # NULL)
               => last'.result = NULL /\ UNCHANGED StoreVars]_vars

\* user 3 asked for the credentials of buyer 1's completed, undelivered
\* transaction: no delivery, and the transaction still undelivered
C26_Witness ==
    /\ IsDeliver(last) /\ last.id = 1 /\ last.user = 3 /\ last.result = NULL
    /\ transactions[1].buyer_id = 1
    /\ transactions[1].status = "completed"
    /\ transactions[1].credentials_delivered_at = NULL
    /\ transactions[1].updated_at = NULL

\* C27: for every transaction created by a successful checkout,
\* credentials_delivered_at is set at most once and only by the first
\* successful credential release: the transaction is inserted undelivered,
\* the first deliverCredentials call of its buyer returns the secret and
\* every later call returns no-delivery.
C27_DeliveredOnDemand ==
    [][/\ (IsCheckout(last') /\ last'.result = "ok")
          => \A k \in DOMAIN last'.returned :
                last'.returned[k].credentials_delivered_at = NULL
       /\ \A t \in DOMAIN transactions :
             transactions'[t].credentials_delivered_at
                # transactions[t].credentials_delivered_at
             => /\ transactions[t].credentials_delivered_at = NULL
                /\ IsDeliver(last') /\ last'.id = t /\ last'.result # NULL
       /\ \A t \in DOMAIN transactions :
             (/\ IsDeliver(last') /\ last'.id = t
              /\ last'.user = transactions[t].buyer_id
              /\ transactions[t].status = "completed")
             => (last'.result # NULL <=> deliveries[t] = 0)]_vars

\* C28: when a listing was created by createListing with credentials c and a
\* deliverCredentials call for a transaction on that listing succeeds, the
\* string returned is c, and the blob stored for the listing differs from c.
C28_CredentialRoundTrip ==
    [][(IsDeliver(last') /\ last'.result # NULL)
         => \A c \in Credentials :
               listings[transactions[last'.id].listing_id].encrypted_credentials
                  = Base64(c)
               => last'.result = c /\ Base64(c) # c]_vars

----------------------------------------------------------------------------
(* Properties of the reviews (SpecReviews) *)

IsCreateReview(c) == c.op = "createReview"

\* C29: createReview succeeds only if the transaction exists, belongs to the
\* requesting buyer, is completed and has no review yet, and fails in that
\* order with transaction-not-found, not-the-buyer's, incomplete-transaction,
\* review-exists; after every createReview call there is at most one review
\* per transaction, whose seller_id is the transaction's seller, and a
\* rejected call leaves the reviews as they were.
C29_OneReviewPerTransaction ==
    [][IsCreateReview(last')
         => LET t == last'.id
                b == last'.user
                expected ==
                   IF t \notin DOMAIN transactions
                   THEN "Transaction not found"
                   ELSE IF transactions[t].buyer_id # b
                   THEN "Transaction does not belong to this buyer"
                   ELSE IF transactions[t].status # "completed"
                   THEN "Cannot review incomplete transaction"
                   ELSE IF \E r \in DOMAIN reviews : reviews[r].transaction_id = t
                   THEN "Review already exists for this transaction"
                   ELSE "ok"
            IN /\ last'.result = expected
               /\ expected # "ok" => reviews' = reviews
               /\ expected = "ok"
                  => /\ Len(reviews') = Len(reviews) + 1
                     /\ SubSeq(reviews', 1, Len(reviews)) = reviews
                     /\ reviews'[Len(reviews')].transaction_id = t
                     /\ reviews'[Len(reviews')].buyer_id = b
                     /\ reviews'[Len(reviews')].rating = last'.amount
               /\ \A r, q \in DOMAIN reviews' :
                     reviews'[r].transaction_id = reviews'[q].transaction_id
                     => r = q
               /\ \A r \in DOMAIN reviews' :
                     reviews'[r].seller_id
                        = transactions[reviews'[r].transaction_id].seller_id]_vars

\* buyer 1 reviewed transaction 3 with rating 5 and tried again with rating 1:
\* refused, and the review still carries rating 5
C29_Witness ==
    /\ IsCreateReview(last) /\ last.id = 3 /\ last.user = 1 /\ last.amount = 1
    /\ last.result = "Review already exists for this transaction"
    /\ \E r \in DOMAIN reviews :
          /\ reviews[r].transaction_id = 3 /\ reviews[r].rating = 5
          /\ reviews[r].seller_id = 3

----------------------------------------------------------------------------
(* Properties of the whole marketplace (SpecAll) *)

\* the handlers that do not belong to the three engines
ClientOps == {"createListing", "updateListing", "adminModerateListing",
              "addToCart", "removeFromCart", "getTransactionCredentials",
              "createDispute", "createReview", "createWithdrawalRequest"}

\* C31: balances are changed only by checkout, adminResolveDispute and
\* adminProcessWithdrawal: createListing, updateListing, adminModerateListing,
\* addToCart, removeFromCart, getTransactionCredentials, createDispute,
\* createReview and createWithdrawalRequest leave every user's balance as it
\* was, whether they succeed or fail.
C31_OnlyEnginesTouchBalances ==
    [][/\ last'.op \in ClientOps => balance' = balance
       /\ balance' # balance
          => last'.op \in {"checkout", "adminResolveDispute",
                           "adminProcessWithdrawal"}]_vars

\* seller 2, credited 47.50 by a checkout, has asked for a withdrawal of
\* 20.00: the request is stored pending and the balance is still 47.50
C31_Witness ==
    /\ IsCreate(last) /\ last.result = "ok" /\ last.amount = 2000
    /\ balance[2] = 4750
    /\ Len(withdrawals) >= 1
    /\ withdrawals[Len(withdrawals)].status = "pending"

----------------------------------------------------------------------------
(* Properties of the life of a purchase (SpecLife) *)

RECURSIVE Credited(_)
\* what the balances of a set of users have gained since the start
Credited(users) ==
    IF users = {} THEN 0
    ELSE LET u == CHOOSE u \in users : TRUE
         IN balance[u] - balance0[u] + Credited(users \ {u})

RECURSIVE Paid(_, _)
\* the amounts, or the amounts less the fees, of a set of transactions
Paid(rows, lessFee) ==
    IF rows = {} THEN 0
    ELSE LET t == CHOOSE t \in rows : TRUE
         IN transactions[t].amount
            - (IF lessFee THEN transactions[t].platform_fee ELSE 0)
            + Paid(rows \ {t}, lessFee)

\* C32: money is conserved over the life of a transaction: what is credited
\* to user balances on account of transactions (the seller credit at checkout,
\* the buyer refund and the seller share of a dispute resolution) never
\* exceeds their amounts, and a seller never receives more than the amounts
\* less the fees of the transactions sold.
C32_LifecycleConservation ==
    /\ Credited(UserIds) <= Paid(DOMAIN transactions, FALSE)
    /\ \A s \in UserIds :
          Credited({s})
             <= Paid({t \in DOMAIN transactions : transactions[t].seller_id = s},
                     TRUE)

----------------------------------------------------------------------------
(* Rejected withdrawals (SpecW) *)

RECURSIVE DebitedFor(_)
\* what the approvals of a set of withdrawal requests have taken
DebitedFor(ids) ==
    IF ids = {} THEN 0
    ELSE LET i == CHOOSE i \in ids : TRUE
         IN debits[i] * withdrawals[i].amount + DebitedFor(ids \ {i})

\* C33: a rejected withdrawal costs the seller nothing: whenever a request is
\* rejected, the balance of its seller is what the seller's other requests
\* leave of it, i.e. any debit taken for the request at approval has been
\* returned, also along pending -> approved -> rejected.
C33_RejectedCostsNothing ==
    \A i \in DOMAIN withdrawals :
       withdrawals[i].status = "rejected"
          => LET s == withdrawals[i].seller_id
                 others == {j \in DOMAIN withdrawals \ {i} :
                               withdrawals[j].seller_id = s}
             IN balance[s] = balance0[s] - DebitedFor(others)

----------------------------------------------------------------------------
(* Transaction statuses (SpecLife) *)

\* C34: every transaction created by checkout is created completed and is
\* completed or refunded in every state; no operation moves a transaction to
\* pending, disputed or cancelled, and createDispute leaves the status of its
\* transaction as it was, so that a transaction under an open dispute is
\* still completed and can still be reviewed.
C34_ReachableTransactionStatuses ==
    [][/\ \A t \in DOMAIN transactions' :
             /\ transactions'[t].status \in {"completed", "refunded"}
             /\ t \notin DOMAIN transactions
                   => /\ last'.op = "checkout"
                      /\ transactions'[t].status = "completed"
             /\ t \in DOMAIN transactions
                   => \/ transactions'[t].status = transactions[t].status
                      \/ /\ last'.op = "adminResolveDispute"
                         /\ transactions'[t].status
                               \notin {"pending", "disputed", "cancelled"}
       /\ last'.op = "createDispute"
             => /\ DOMAIN transactions' = DOMAIN transactions
                /\ \A t \in DOMAIN transactions :
                      transactions'[t].status = transactions[t].status]_vars

\* a purchase made by checkout is reviewed while its dispute is open
C34_Witness ==
    /\ IsCreateReview(last) /\ last.result = "ok"
    /\ \E d \in DOMAIN disputes :
          /\ disputes[d].transaction_id = last.id
          /\ disputes[d].status = "open"
          /\ transactions[last.id].status = "completed"

----------------------------------------------------------------------------
(* Credential confidentiality of the listing reads (SpecBrowse) *)

\* the listings table with the stored blobs replaced by others
Reblobbed(alt) ==
    [l \in DOMAIN listings |-> [listings[l] EXCEPT !.encrypted_credentials = alt[l]]]

\* C35: the results of getListings, getListingById, getSellerListings and
\* adminGetAllListings do not depend on any listing's stored credential blob:
\* what a read returns is what it returns from every store that differs only
\* in the listings' encrypted_credentials.
C35_ReadsHideCredentials ==
    [][\A alt \in [DOMAIN listings -> Blobs] :
          /\ last'.op = "getListings"
                => last'.returned = ActiveListings(Reblobbed(alt))
          /\ last'.op = "getListingById"
                => last'.returned = ListingById(Reblobbed(alt), last'.id)
          /\ last'.op = "getSellerListings"
                => last'.returned = SellerListings(Reblobbed(alt), last'.id)
          /\ last'.op = "adminGetAllListings"
                => last'.returned = AllListings(Reblobbed(alt))]_vars

----------------------------------------------------------------------------
(* Interleaved checkouts of one listing (SpecRush) *)

\* C36: no double sale: when the checkouts of two buyers whose carts hold the
\* same active listing interleave, at most one of them creates a transaction
\* for the listing and the seller is credited for it at most once.
C36_NoDoubleSale ==
    \A l \in DOMAIN listings :
       LET sales == {t \in DOMAIN transactions : transactions[t].listing_id = l}
           earnings == listings[l].price - PlatformFee(listings[l].price)
       IN /\ Cardinality(sales) <= 1
          /\ net[listings[l].seller_id] <= earnings

----------------------------------------------------------------------------
(* Interleaved resolutions of one dispute (SpecDesk) *)

\* C37: a dispute is paid out at most once under concurrency: when two
\* resolveDispute requests for the same open dispute interleave, balances are
\* credited only by a resolution of a dispute that is not yet resolved or
\* closed when the credit is written, so that at most one of the two pays out.
C37_PaidOutAtMostOnce ==
    [][net' # net
          => /\ last'.op = "adminResolveDispute"
             /\ ~AlreadyResolved(disputes[last'.id])]_vars

====
